---- MODULE Spec2Model ----
(***************************************************************************)
(* Verification model of the traffic-eye violation pipeline:               *)
(*   - TemporalConsistencyChecker   (src/src/violation/temporal.py)        *)
(*   - RuleEngine                   (src/src/violation/rules.py)           *)
(*   - Database queues              (src/src/utils/database.py)            *)
(*   - EmailSender.process_queue    (src/src/reporting/sender.py)          *)
(*   - CloudVerificationProcessor   (src/src/cloud/verifier.py)            *)
(*   - IOUTracker                   (src/src/detection/tracker.py)         *)
(*   - StorageManager               (src/src/utils/storage.py)             *)
(*   - EvidencePackager             (src/src/reporting/evidence.py)        *)
(*   - ConfidenceAggregator         (src/src/violation/confidence.py)      *)
(* Confidences are percentages (0.7 is 70); times are whole seconds of the *)
(* monotonic clock.                                                        *)
(***************************************************************************)
EXTENDS Integers, Sequences, FiniteSets, TLC

VARIABLES
    \* ---- TemporalConsistencyChecker / RuleEngine state
    counters,       \* _temporal._counters: (violation_type, track_id) -> count
    cooldowns,      \* _cooldowns: violation_type -> time of the last report
    report_times,   \* _report_times: list of report times
    now,            \* the value time.monotonic() returns
    \* ---- process_frame in progress
    fpc,            \* "idle", or "rules" while the loop over the rules runs
    ridx,           \* index in RuleOrder of the rule the loop is at
    dets,           \* track ids of frame_data.detections
    out,            \* the list `violations` being built
    \* ---- observations of the rule engine (history)
    lastOut,        \* what the last process_frame call returned
    lastGps,        \* frame_data.gps of the last process_frame call
    nframes,        \* process_frame calls since construction
    emitted,        \* every candidate emitted: [type, time]
    streak,         \* (rule, track) -> trailing evaluated frames with a clearing hit
    steady,         \* (rule, track) pairs hit exactly once, clearing, in every frame so far
    \* ---- observations of direct TemporalConsistencyChecker.update calls
    calls,          \* key -> the condition_met values passed, oldest first
    lastCall,       \* the last update call: [key, cond, min_frames, ret]
    \* ---- the database
    vstatus,        \* violations: id -> status, "absent" when there is no row
    evidence,       \* ids of the violations that have evidence_files rows
    email_queue,    \* email_queue rows by id: [violation_id, status, attempts, error_message]
    cloud_queue,    \* cloud_queue rows by id: [violation_id, status, attempts, error_message]
    \* ---- EmailSender and the process_queue invocations
    send_times,     \* _send_times
    epc,            \* invocation -> position in process_queue
    esnap,          \* invocation -> the entries of `pending` not handled yet
    delivered,      \* email row -> messages the SMTP server accepted (history)
    sentLog,        \* the times of the successful sends, oldest first (history)
    attemptsMade,   \* email row -> times a processor went on to send it (history)
    rateStopped,    \* process_queue has left its loop on the rate limit (history)
    sendCalls,      \* email row -> calls of send(report) made for it (history)
    lastSleep,      \* the last lease: [id, sends, seconds], sends being the
                    \* send calls made before for the row and seconds the
                    \* backoff slept (history)
    \* ---- CloudVerificationProcessor.process_batch and CloudVerifier.verify
    cpc,            \* position in process_batch
    csnap,          \* the entries of `pending` not handled yet
    cattempt,       \* `attempt` of the retry loop of verify, 0 outside it
    cresult,        \* what verify returned: "confirmed", "not_confirmed", "none"
    apiSeen,        \* cloud row -> outcomes of the API calls made for it (history)
    processed,      \* `processed` of the process_batch in progress
    cprobe,         \* what is_online() said last: "none", "online", "offline" (history)
    cret,           \* what the last process_batch returned, -1 before any (history)
    \* ---- IOUTracker
    trks,           \* _tracks: list of [track_id, bbox, missing_frames]
    next_id,        \* _next_id
    tdets,          \* the boxes of the detections of the last update call
    tids,           \* the track_id it gave each of them
    prevTracks,     \* _tracks when the last update call began (history)
    assigned,       \* the ids given to new tracks, oldest first (history)
    missRun,        \* track id -> update calls since the call that created or
                    \* last matched it, capped at max_missing_frames + 1 (history)
    nupdates,       \* update calls so far
    \* ---- EvidencePackager: the last clip encoding
    pkIn,           \* what the environment did: [clip, hw, sw, move, db]
    pkOut,          \* what happened: [tried, video_clip_path, raised]
    \* ---- the evidence directory on disk
    edirs,          \* ids of the violations that have an evidence directory
    efiles,         \* ids of the violations with evidence files in it
    \* ---- EvidencePackager.package in progress
    kpc,            \* position in package
    kvid,           \* violation_id of the call, "none" before the first
    kn,             \* len(best_frames)
    kidx,           \* i of the loop of _process_frames
    kclip,          \* clip_frames is not empty
    packet,         \* the packet: [frames, hashes, video_clip_path]
    kok,            \* the frames whose iteration raised nothing (history)
    kclipOk,        \* the clip was encoded, stored and recorded (history)
    \* ---- StorageManager.check_and_cleanup in progress
    spc,            \* position in check_and_cleanup
    sdirs,          \* entries of iterdir() not looked at yet
    scand,          \* the entry _cleanup_orphan_dirs is about to remove
    \* ---- ConfidenceAggregator: the last calls (history)
    rconf,          \* the confidence the routing predicates were asked about
    rband,          \* what they said: [local, cloud, discard]
    cin,            \* the arguments of compute: [d, c, t, ocr]
    cres,           \* what compute returned, as the fraction [num, den]
    \* ---- EvidencePackager._select_best_frames: one call
    sbIn,           \* its arguments: [frames, clip, count]
    sbOut,          \* the frame ids of the list it returned
    sbRan,          \* the call has returned
    \* ---- EvidencePackager.package: the files of the call (history)
    kfiles,         \* names of the files it put into the evidence directory
    \* ---- CloudVerifier.verify: one call
    vpc,            \* position in verify: "idle", "try", "sleep"
    vprovider,      \* self._provider
    vattempt,       \* `attempt` of the retry loop
    vlog,           \* what each API call made so far did, oldest first (history)
    vsleeps,        \* the seconds of each time.sleep, oldest first (history)
    vret,           \* the VerificationResult returned: [confirmed, confidence, raw]
    vdone           \* verify has returned

ruleVars == <<counters, cooldowns, report_times, now, fpc, ridx, dets, out,
              lastOut, lastGps, nframes, emitted, streak, steady>>
tempVars == <<calls, lastCall>>
dbVars == <<vstatus, evidence, email_queue, cloud_queue>>
emailVars == <<send_times, epc, esnap, delivered, sentLog, attemptsMade,
              rateStopped, sendCalls, lastSleep>>
cloudVars == <<cpc, csnap, cattempt, cresult, apiSeen, processed, cprobe, cret>>
queueVars == <<dbVars, emailVars, cloudVars>>
trackerVars == <<trks, next_id, tdets, tids, prevTracks, assigned, missRun, nupdates>>
packVars == <<pkIn, pkOut>>
diskVars == <<edirs, efiles>>
pkgVars == <<kpc, kvid, kn, kidx, kclip, packet, kok, kclipOk>>
cleanVars == <<spc, sdirs, scand>>
storeVars == <<diskVars, pkgVars, cleanVars>>
confVars == <<rconf, rband, cin, cres>>
selVars == <<sbIn, sbOut, sbRan>>
verVars == <<vpc, vprovider, vattempt, vlog, vsleeps, vret, vdone>>
extraVars == <<selVars, kfiles, verVars>>

(***************************************************************************)
(* Bounds of the model.                                                    *)
(***************************************************************************)
MaxFrames == 4          \* process_frame calls in one run
MaxHits == 2            \* hits one rule returns for one frame
MaxCalls == 6           \* direct update calls in one run
MaxMinFrames == 3       \* largest min_frames passed to a direct update call
MaxReportsPerHour == 2  \* violations.max_reports_per_hour, default 20
MaxEmailRows == 3       \* rows ever inserted into email_queue
MaxCloudRows == 2       \* rows ever inserted into cloud_queue
MaxUpdates == 4         \* IOUTracker.update calls
MaxDets == 2            \* detections in one update call
MaxMissingFrames == 1   \* IOUTracker(max_missing_frames=...), default 5
MaxBestFrames == 2      \* reporting.best_frames_count, default 3
MaxClipFrames == 3      \* frames get_clip returns for one violation
ScoreSteps == 3         \* a score of 1.0, in the unit of the component scores

Tracks == {1, 2}
Confs == {50, 90}
NoGps == -1
GpsInputs == {NoGps, 2, 25}     \* frame_data.gps: None, or its speed_kmh
TickSet == {0, 30, 3600}        \* seconds between two frames

(***************************************************************************)
(* Program constants.                                                      *)
(***************************************************************************)
DefaultMinFrames == 3
DefaultConfThreshold == 70
DefaultCooldown == 30
Hour == 3600
SpeedGate == 5
MaxAttempts == 5        \* EmailSender._max_attempts
EmailBatchLimit == 20   \* get_pending_emails(limit=20)
CloudBatchLimit == 5    \* get_pending(limit=5)
MaxRetries == 3         \* cloud.max_retries
IouThresholdNum == 3    \* IOUTracker(iou_threshold=0.3) as 3/10
IouThresholdDen == 10
BackoffCap == 300       \* min(300, 2 ** attempts)
LocalThreshold == 96    \* meets_local_threshold(threshold=0.96)
CloudLow == 70          \* needs_cloud_verification(low=0.70)
CloudHigh == 96         \* needs_cloud_verification(high=0.96)
DiscardThreshold == 70  \* should_discard(threshold=0.70)
WeightDetection == 3    \* DEFAULT_WEIGHTS, in tenths
WeightClassification == 3
WeightTemporal == 2
WeightOcr == 2
WeightUnit == 10
NoOcr == -1             \* ocr_conf=None

RuleOrder == <<"no_helmet", "red_light_jump">>
Rules == {RuleOrder[i] : i \in 1..Len(RuleOrder)}
Keys == Rules \X Tracks

\* rule_configs: no_helmet runs on the defaults, red_light_jump confirms
\* after 2 frames.
MinFrames(vtype) == IF vtype = "red_light_jump" THEN 2 ELSE DefaultMinFrames
ConfThreshold(vtype) == DefaultConfThreshold
Cooldown(vtype) == DefaultCooldown

EmptyFn == [x \in {} |-> 0]

(***************************************************************************)
(* TemporalConsistencyChecker                                              *)
(***************************************************************************)
GetCount(c, vtype, track) ==
    IF <<vtype, track>> \in DOMAIN c THEN c[<<vtype, track>>] ELSE 0

TemporalUpdate_NoReset(c, vtype, track, condition_met) ==
    IF condition_met
    THEN (<<vtype, track>> :> (GetCount(c, vtype, track) + 1)) @@ c
    ELSE (<<vtype, track>> :> GetCount(c, vtype, track)) @@ c

\* update(): the counters after the call
TemporalUpdate(c, vtype, track, condition_met) ==
    IF condition_met
    THEN (<<vtype, track>> :> (GetCount(c, vtype, track) + 1)) @@ c
    ELSE (<<vtype, track>> :> 0) @@ c

\* update(): the value returned, read from the counters after the call
TemporalConfirmed(c, vtype, track, min_frames) ==
    GetCount(c, vtype, track) >= min_frames

(***************************************************************************)
(* RuleEngine                                                              *)
(***************************************************************************)
\* What rule.evaluate may return: a list of (track_id, raw_conf).
HitLists(tracks, confs) ==
    UNION {[1..n -> [track : tracks, conf : confs]] : n \in 0..MaxHits}

\* frame_data.gps and frame_data.gps.speed_kmh < self._speed_gate_kmh
SpeedGated_Never(gps) == FALSE

SpeedGated(gps) == gps # NoGps /\ gps < SpeedGate

CheckCooldown_Off(cd, vtype, t) == TRUE

\* _check_cooldown: a type never reported reads as last = 0
CheckCooldown(cd, vtype, t) ==
    LET last == IF vtype \in DOMAIN cd THEN cd[vtype] ELSE 0
    IN  (t - last) >= Cooldown(vtype)

\* _check_rate_limit, the list it leaves in _report_times
PruneReportTimes(rt, t) == SelectSeq(rt, LAMBDA x : t - x < Hour)

RateLimitOk_OffByOne(rt, t) == Len(PruneReportTimes(rt, t)) <= MaxReportsPerHour

\* _check_rate_limit, the value it returns
RateLimitOk(rt, t) == Len(PruneReportTimes(rt, t)) < MaxReportsPerHour

\* The loop `for track_id, raw_conf in hits` of process_frame, on the
\* engine state st = [counters, cooldowns, report_times, out, emitted].
RECURSIVE ProcessHits(_, _, _, _)
ProcessHits(st, vtype, hits, t) ==
    IF hits = <<>> THEN st
    ELSE
      LET h == Head(hits)
          c1 == TemporalUpdate(st.counters, vtype, h.track, TRUE)
          confirmed == TemporalConfirmed(c1, vtype, h.track, MinFrames(vtype))
          cdOk == CheckCooldown(st.cooldowns, vtype, t)
          \* `and` short-circuits: the rate limit is consulted, and the
          \* list pruned, only when the cooldown has passed
          rt1 == IF confirmed /\ cdOk
                 THEN PruneReportTimes(st.report_times, t)
                 ELSE st.report_times
          emit == confirmed /\ cdOk /\ RateLimitOk(st.report_times, t)
          count == GetCount(c1, vtype, h.track)
          st1 ==
            IF h.conf < ConfThreshold(vtype) THEN st
            ELSE IF emit
            THEN [counters |-> c1,
                  cooldowns |-> (vtype :> t) @@ st.cooldowns,
                  report_times |-> Append(rt1, t),
                  out |-> Append(st.out,
                            [violation_type |-> vtype,
                             consecutive_frame_count |-> count,
                             track |-> h.track]),   \* for the record only
                  emitted |-> Append(st.emitted,
                            [type |-> vtype, time |-> t])]
            ELSE [st EXCEPT !.counters = c1, !.report_times = rt1]
      IN  ProcessHits(st1, vtype, Tail(hits), t)

\* active_hits = {tid for tid, _ in hits}
ActiveHits(hits) == {hits[i].track : i \in 1..Len(hits)}

\* The loop `for det in frame_data.detections` that resets the counters of
\* the tracks of the frame that are not among the hits.
RECURSIVE ResetMisses(_, _, _)
ResetMisses(c, vtype, missed) ==
    IF missed = {} THEN c
    ELSE LET tr == CHOOSE x \in missed : TRUE
         IN  ResetMisses(TemporalUpdate(c, vtype, tr, FALSE), vtype,
                         missed \ {tr})

\* Tracks with a hit of the list that clears the rule's threshold.
Clearing(vtype, hits) ==
    {hits[i].track : i \in {j \in 1..Len(hits) : hits[j].conf >= ConfThreshold(vtype)}}

HitCount(hits, tr) == Cardinality({i \in 1..Len(hits) : hits[i].track = tr})

\* process_frame up to the speed gate: a gated frame returns [] at once,
\* any other frame enters the loop over the rules.
BeginFrame(dt, gps, d) ==
    /\ fpc = "idle"
    /\ nframes < MaxFrames
    /\ now' = now + dt
    /\ nframes' = nframes + 1
    /\ lastGps' = gps
    /\ IF SpeedGated(gps)
       THEN /\ lastOut' = <<>>
            /\ steady' = {}
            /\ UNCHANGED <<counters, cooldowns, report_times, fpc, ridx, dets,
                           out, emitted, streak>>
       ELSE /\ fpc' = "rules"
            /\ ridx' = 1
            /\ dets' = d
            /\ out' = <<>>
            /\ UNCHANGED <<counters, cooldowns, report_times, lastOut,
                           emitted, streak, steady>>
    /\ UNCHANGED <<extraVars, tempVars, queueVars, trackerVars, packVars, confVars, storeVars>>

\* One iteration of `for rule in self._rules`, and the return after the last.
EvalRule(hits) ==
    /\ LET vtype == RuleOrder[ridx]
           st0 == [counters |-> counters, cooldowns |-> cooldowns,
                   report_times |-> report_times, out |-> out,
                   emitted |-> emitted]
           st1 == ProcessHits(st0, vtype, hits, now)
           c2  == ResetMisses(st1.counters, vtype, dets \ ActiveHits(hits))
       IN  /\ counters' = c2
           /\ cooldowns' = st1.cooldowns
           /\ report_times' = st1.report_times
           /\ emitted' = st1.emitted
           /\ streak' = [k \in Keys |->
                           IF k[1] # vtype THEN streak[k]
                           ELSE IF k[2] \in Clearing(vtype, hits)
                                THEN streak[k] + 1 ELSE 0]
           /\ steady' = {k \in steady :
                           k[1] = vtype =>
                             /\ HitCount(hits, k[2]) = 1
                             /\ k[2] \in Clearing(vtype, hits)}
           /\ IF ridx = Len(RuleOrder)
              THEN /\ fpc' = "idle"
                   /\ lastOut' = st1.out
                   /\ out' = <<>>
                   /\ ridx' = 0
                   /\ dets' = {}
              ELSE /\ ridx' = ridx + 1
                   /\ out' = st1.out
                   /\ UNCHANGED <<fpc, lastOut, dets>>
    /\ UNCHANGED <<now, nframes, lastGps>>
    /\ UNCHANGED <<extraVars, tempVars, queueVars, trackerVars, packVars, confVars, storeVars>>

(***************************************************************************)
(* Database: violations, evidence_files, email_queue                       *)
(***************************************************************************)
VIds == {"v1", "v2"}
Procs == {1, 2}
NoError == "NULL"

\* SELECT ... WHERE status = 'pending' ORDER BY created_at ASC LIMIT ?
\* (rows are created in id order), as the list of dicts the caller gets.
RECURSIVE PendingFrom(_, _)
PendingFrom(q, i) ==
    IF i > Len(q) THEN <<>>
    ELSE IF q[i].status = "pending"
         THEN <<[id |-> i, violation_id |-> q[i].violation_id,
                 attempts |-> q[i].attempts]>> \o PendingFrom(q, i + 1)
         ELSE PendingFrom(q, i + 1)

FirstN(sq, n) == IF Len(sq) <= n THEN sq ELSE SubSeq(sq, 1, n)

GetPendingEmails(q, limit) == FirstN(PendingFrom(q, 1), limit)

UpdateEmailStatus_KeepAttempts(q, id, status, error_message) ==
    [q EXCEPT ![id] = [@ EXCEPT !.status = status,
                                !.error_message = error_message]]

\* UPDATE email_queue SET status = ?, attempts = attempts + 1,
\*   error_message = ? WHERE id = ?
UpdateEmailStatus(q, id, status, error_message) ==
    [q EXCEPT ![id] = [@ EXCEPT !.status = status,
                                !.attempts = @ + 1,
                                !.error_message = error_message]]

\* insert_violation
InsertViolation(v) ==
    /\ vstatus[v] = "absent"
    /\ vstatus' = [vstatus EXCEPT ![v] = "pending"]
    /\ UNCHANGED <<evidence, email_queue, cloud_queue, emailVars>>
    /\ UNCHANGED <<extraVars, trackerVars, packVars, confVars, storeVars, ruleVars, tempVars, cloudVars>>

\* insert_evidence_file (the foreign key needs the violation row)
InsertEvidenceFile(v) ==
    /\ vstatus[v] # "absent"
    /\ v \notin evidence
    /\ evidence' = evidence \cup {v}
    /\ UNCHANGED <<vstatus, email_queue, cloud_queue, emailVars>>
    /\ UNCHANGED <<extraVars, trackerVars, packVars, confVars, storeVars, ruleVars, tempVars, cloudVars>>

\* enqueue_email (the foreign key needs the violation row)
EnqueueEmail(v) ==
    /\ vstatus[v] # "absent"
    /\ Len(email_queue) < MaxEmailRows
    /\ email_queue' = Append(email_queue,
                        [violation_id |-> v, status |-> "pending",
                         attempts |-> 0, error_message |-> NoError])
    /\ UNCHANGED <<vstatus, evidence, cloud_queue, emailVars>>
    /\ UNCHANGED <<extraVars, trackerVars, packVars, confVars, storeVars, ruleVars, tempVars, cloudVars>>

(***************************************************************************)
(* EmailSender.process_queue, one step per database statement or send.     *)
(* The invocations run on one EmailSender of one process.                  *)
(***************************************************************************)
\* _check_rate_limit of the sender: the list it leaves in _send_times
SendTimesPruned(st, t) == SelectSeq(st, LAMBDA x : t - x < Hour)

SenderRateLimitOk_OffByOne(st, t) == Len(SendTimesPruned(st, t)) <= MaxReportsPerHour

\* _check_rate_limit of the sender: the value it returns
SenderRateLimitOk(st, t) == Len(SendTimesPruned(st, t)) < MaxReportsPerHour

Max2(a, b) == IF a >= b THEN a ELSE b
Min2(a, b) == IF a <= b THEN a ELSE b

RECURSIVE Pow2(_)
Pow2(n) == IF n = 0 THEN 1 ELSE 2 * Pow2(n - 1)

\* The backoff process_queue sleeps before it leases an entry: nothing for
\* attempts = 0, else min(300, 2 ** attempts) seconds
Backoff(attempts) ==
    IF attempts > 0 THEN Min2(BackoffCap, Pow2(attempts)) ELSE 0

\* pending = self._db.get_pending_emails(limit=20)
PQ_Start(p) ==
    /\ epc[p] = "idle"
    /\ esnap' = [esnap EXCEPT ![p] = GetPendingEmails(email_queue, EmailBatchLimit)]
    /\ epc' = [epc EXCEPT ![p] = "loop"]
    /\ UNCHANGED <<dbVars, send_times, delivered, sentLog, attemptsMade, rateStopped,
                   sendCalls, lastSleep>>
    /\ UNCHANGED <<extraVars, trackerVars, packVars, confVars, storeVars, ruleVars, tempVars, cloudVars>>

\* Top of the loop body: the max-attempts check, the rate limit, the
\* backoff sleep and update_email_status(queue_id, "processing"); or the
\* return when the list is exhausted.
PQ_Entry(p) ==
    /\ epc[p] = "loop"
    /\ IF esnap[p] = <<>>
       THEN /\ epc' = [epc EXCEPT ![p] = "idle"]
            /\ UNCHANGED <<email_queue, esnap, send_times, rateStopped, lastSleep>>
       ELSE LET entry == Head(esnap[p])
            IN  IF entry.attempts >= MaxAttempts
                THEN /\ email_queue' = UpdateEmailStatus(email_queue, entry.id,
                                         "failed", "Max retry attempts exceeded")
                     /\ esnap' = [esnap EXCEPT ![p] = Tail(@)]
                     /\ UNCHANGED <<epc, send_times, rateStopped, lastSleep>>
                ELSE IF ~SenderRateLimitOk(send_times, now)
                THEN /\ send_times' = SendTimesPruned(send_times, now)
                     /\ epc' = [epc EXCEPT ![p] = "idle"]
                     /\ esnap' = [esnap EXCEPT ![p] = <<>>]
                     /\ rateStopped' = TRUE
                     /\ UNCHANGED <<email_queue, lastSleep>>
                ELSE /\ send_times' = SendTimesPruned(send_times, now)
                     /\ lastSleep' = [id |-> entry.id,
                                      sends |-> sendCalls[entry.id],
                                      seconds |-> Backoff(entry.attempts)]
                     /\ email_queue' = UpdateEmailStatus(email_queue, entry.id,
                                         "processing", NoError)
                     /\ epc' = [epc EXCEPT ![p] = "leased"]
                     /\ UNCHANGED <<esnap, rateStopped>>
    /\ UNCHANGED <<vstatus, evidence, cloud_queue, delivered, sentLog, attemptsMade,
                   sendCalls>>
    /\ UNCHANGED <<extraVars, trackerVars, packVars, confVars, storeVars, ruleVars, tempVars, cloudVars>>

\* _reconstruct_report returns None: get_violation or get_evidence_files
\* finds nothing
ReportMissing_ViolationOnly(vs, ev, v) == vs[v] = "absent"

ReportMissing(vs, ev, v) == vs[v] = "absent" \/ v \notin ev

\* _reconstruct_report and send: no report when the violation or its
\* evidence rows are missing; otherwise the message is accepted ("sent"),
\* send returns False on an SMTP error or timeout ("send_failed"), or the
\* reconstruction raises ("error").
PQ_Send(p, outcome) ==
    /\ epc[p] = "leased"
    /\ LET entry == Head(esnap[p])
           v == entry.violation_id
       IN  IF ReportMissing(vstatus, evidence, v)
           THEN /\ epc' = [epc EXCEPT ![p] = "no_report"]
                /\ attemptsMade' = [attemptsMade EXCEPT ![entry.id] = @ + 1]
                /\ UNCHANGED <<send_times, delivered, sentLog, sendCalls>>
           ELSE /\ epc' = [epc EXCEPT ![p] = outcome]
                /\ send_times' = IF outcome = "sent"
                                 THEN Append(send_times, now) ELSE send_times
                /\ delivered' = IF outcome = "sent"
                                THEN [delivered EXCEPT ![entry.id] = @ + 1]
                                ELSE delivered
                /\ sentLog' = IF outcome = "sent"
                              THEN Append(sentLog, now) ELSE sentLog
                /\ attemptsMade' = [attemptsMade EXCEPT ![entry.id] = @ + 1]
                /\ sendCalls' = IF outcome \in {"sent", "send_failed"}
                                THEN [sendCalls EXCEPT ![entry.id] = @ + 1]
                                ELSE sendCalls
    /\ UNCHANGED <<dbVars, esnap, rateStopped, lastSleep>>
    /\ UNCHANGED <<extraVars, trackerVars, packVars, confVars, storeVars, ruleVars, tempVars, cloudVars>>

\* The update_email_status that ends the loop body.
PQ_Record(p) ==
    /\ epc[p] \in {"no_report", "sent", "send_failed", "error"}
    /\ LET id == Head(esnap[p]).id
       IN  email_queue' =
             CASE epc[p] = "no_report" ->
                    UpdateEmailStatus(email_queue, id, "failed", "Evidence not found")
               [] epc[p] = "sent" ->
                    UpdateEmailStatus(email_queue, id, "sent", NoError)
               [] epc[p] = "send_failed" ->
                    UpdateEmailStatus(email_queue, id, "pending",
                                      "Send failed (network error)")
               [] epc[p] = "error" ->
                    UpdateEmailStatus(email_queue, id, "pending", "Processing error")
    \* _cleanup_evidence unlinks the files of the rows and keeps the rows
    /\ efiles' = IF epc[p] = "sent"
                 THEN efiles \ {Head(esnap[p]).violation_id} ELSE efiles
    /\ esnap' = [esnap EXCEPT ![p] = Tail(@)]
    /\ epc' = [epc EXCEPT ![p] = "loop"]
    /\ UNCHANGED <<vstatus, evidence, cloud_queue, send_times, delivered, sentLog,
                   attemptsMade, rateStopped, sendCalls, lastSleep>>
    /\ UNCHANGED <<extraVars, trackerVars, packVars, confVars, edirs, pkgVars, cleanVars, ruleVars, tempVars, cloudVars>>

\* The invocation is stopped: KeyboardInterrupt, SystemExit or a task
\* cancellation is raised inside process_queue, during the sleep, the
\* reconstruction or the send; `except Exception` does not catch it.
PQ_Cancel(p) ==
    /\ epc[p] # "idle"
    /\ epc' = [epc EXCEPT ![p] = "idle"]
    /\ esnap' = [esnap EXCEPT ![p] = <<>>]
    /\ UNCHANGED <<dbVars, send_times, delivered, sentLog, attemptsMade, rateStopped,
                   sendCalls, lastSleep>>
    /\ UNCHANGED <<extraVars, trackerVars, packVars, confVars, storeVars, ruleVars, tempVars, cloudVars>>

\* The process dies: every invocation and the sender's memory are gone,
\* the database keeps what was committed.
EmailCrash ==
    /\ \E p \in Procs : epc[p] # "idle"
    /\ epc' = [p \in Procs |-> "idle"]
    /\ esnap' = [p \in Procs |-> <<>>]
    /\ send_times' = <<>>
    /\ UNCHANGED <<dbVars, delivered, sentLog, attemptsMade, rateStopped,
                   sendCalls, lastSleep>>
    /\ UNCHANGED <<extraVars, trackerVars, packVars, confVars, storeVars, ruleVars, tempVars, cloudVars>>

(***************************************************************************)
(* cloud_queue, CloudVerifier.verify and                                   *)
(* CloudVerificationProcessor.process_batch, one step per database         *)
(* statement or API call.                                                  *)
(***************************************************************************)
GetPendingCloud(q, limit) == FirstN(PendingFrom(q, 1), limit)

\* UPDATE cloud_queue SET status = ?, attempts = attempts + 1, ...
\*   WHERE id = ?
UpdateCloudStatus(q, id, status, error_message) ==
    [q EXCEPT ![id] = [@ EXCEPT !.status = status,
                                !.attempts = @ + 1,
                                !.error_message = error_message]]

\* CloudQueue.enqueue / enqueue_cloud (the foreign key needs the violation)
EnqueueCloud(v) ==
    /\ vstatus[v] # "absent"
    /\ Len(cloud_queue) < MaxCloudRows
    /\ cloud_queue' = Append(cloud_queue,
                        [violation_id |-> v, status |-> "pending",
                         attempts |-> 0, error_message |-> NoError])
    /\ UNCHANGED <<vstatus, evidence, email_queue, emailVars, cloudVars>>
    /\ UNCHANGED <<extraVars, trackerVars, packVars, confVars, storeVars, ruleVars, tempVars>>

ProbeAllows_Always(online) == TRUE

\* `if not self._queue.is_online(): return 0`
ProbeAllows(online) == online

\* is_online() and pending = self._queue.get_pending(limit=5)
PB_Start(online) ==
    /\ cpc = "idle"
    /\ IF ProbeAllows(online)
       THEN /\ csnap' = GetPendingCloud(cloud_queue, CloudBatchLimit)
            /\ cpc' = "loop"
            /\ processed' = 0
            /\ UNCHANGED cret
       ELSE /\ cret' = 0
            /\ UNCHANGED <<csnap, cpc, processed>>
    /\ cprobe' = IF online THEN "online" ELSE "offline"
    /\ UNCHANGED <<dbVars, emailVars, cattempt, cresult, apiSeen>>
    /\ UNCHANGED <<extraVars, trackerVars, packVars, confVars, storeVars, ruleVars, tempVars>>

\* Top of the loop body: get_violation, get_evidence_files and the two
\* mark_failed exits; or the return when the list is exhausted.
PB_Entry ==
    /\ cpc = "loop"
    /\ IF csnap = <<>>
       THEN /\ cpc' = "idle"
            /\ cret' = processed
            /\ UNCHANGED <<cloud_queue, csnap, cattempt, processed>>
       ELSE LET entry == Head(csnap)
            IN  IF vstatus[entry.violation_id] = "absent"
                THEN /\ cloud_queue' = UpdateCloudStatus(cloud_queue, entry.id,
                                         "failed", "Violation not found")
                     /\ csnap' = Tail(csnap)
                     /\ processed' = processed + 1
                     /\ UNCHANGED <<cpc, cattempt, cret>>
                ELSE IF entry.violation_id \notin evidence
                THEN /\ cloud_queue' = UpdateCloudStatus(cloud_queue, entry.id,
                                         "failed", "No evidence files")
                     /\ csnap' = Tail(csnap)
                     /\ processed' = processed + 1
                     /\ UNCHANGED <<cpc, cattempt, cret>>
                ELSE /\ cpc' = "verify"
                     /\ cattempt' = 1
                     /\ UNCHANGED <<cloud_queue, csnap, processed, cret>>
    /\ UNCHANGED <<vstatus, evidence, email_queue, emailVars, cresult, apiSeen, cprobe>>
    /\ UNCHANGED <<extraVars, trackerVars, packVars, confVars, storeVars, ruleVars, tempVars>>

\* verify gives up after max_retries calls that raised
VerifyGivesUp(attempt) == attempt >= MaxRetries

\* One pass of the retry loop of verify.  The call returns a response that
\* confirms with a confidence at or above cloud.confidence_threshold
\* ("confirmed") or one that does not ("not_confirmed"), or it raises
\* httpx.TimeoutException ("timeout") or anything else ("error").  After
\* the last attempt verify returns VerificationResult(confirmed=False).
PB_ApiCall(outcome) ==
    /\ cpc = "verify"
    /\ apiSeen' = [apiSeen EXCEPT ![Head(csnap).id] = @ \cup {outcome}]
    /\ IF outcome \in {"confirmed", "not_confirmed"}
       THEN /\ cresult' = outcome
            /\ cpc' = "result"
            /\ cattempt' = 0
       ELSE IF VerifyGivesUp(cattempt)
       THEN /\ cresult' = "not_confirmed"
            /\ cpc' = "result"
            /\ cattempt' = 0
       ELSE /\ cattempt' = cattempt + 1
            /\ UNCHANGED <<cresult, cpc>>
    /\ UNCHANGED <<dbVars, emailVars, csnap, processed, cprobe, cret>>
    /\ UNCHANGED <<extraVars, trackerVars, packVars, confVars, storeVars, ruleVars, tempVars>>

Accepted_Always(result) == TRUE

\* result.confirmed and result.confidence >= cloud.confidence_threshold
Accepted(result) == result = "confirmed"

\* mark_complete(queue_id, ...) or mark_failed(queue_id, "Not confirmed ...")
PB_MarkResult ==
    /\ cpc = "result"
    /\ IF Accepted(cresult)
       THEN /\ cloud_queue' = UpdateCloudStatus(cloud_queue, Head(csnap).id,
                                "done", NoError)
            /\ cpc' = "verified"
       ELSE /\ cloud_queue' = UpdateCloudStatus(cloud_queue, Head(csnap).id,
                                "failed", "Not confirmed")
            /\ cpc' = "discarded"
    /\ cresult' = "none"
    /\ UNCHANGED <<vstatus, evidence, email_queue, emailVars, csnap, cattempt, apiSeen,
                   processed, cprobe, cret>>
    /\ UNCHANGED <<extraVars, trackerVars, packVars, confVars, storeVars, ruleVars, tempVars>>

\* update_violation_status(violation_id, "verified" | "discarded")
PB_UpdateViolation ==
    /\ cpc \in {"verified", "discarded"}
    /\ vstatus' = [vstatus EXCEPT ![Head(csnap).violation_id] =
                      IF @ = "absent" THEN @ ELSE cpc]
    /\ IF cpc = "verified"
       THEN /\ cpc' = "enqueue"
            /\ UNCHANGED <<csnap, processed>>
       ELSE /\ cpc' = "loop"
            /\ csnap' = Tail(csnap)
            /\ processed' = processed + 1
    /\ UNCHANGED <<evidence, email_queue, cloud_queue, emailVars, cattempt, cresult, apiSeen,
                   cprobe, cret>>
    /\ UNCHANGED <<extraVars, trackerVars, packVars, confVars, storeVars, ruleVars, tempVars>>

\* self._db.enqueue_email(violation_id)
PB_EnqueueEmail ==
    /\ cpc = "enqueue"
    /\ email_queue' = Append(email_queue,
                        [violation_id |-> Head(csnap).violation_id,
                         status |-> "pending", attempts |-> 0,
                         error_message |-> NoError])
    /\ cpc' = "loop"
    /\ csnap' = Tail(csnap)
    /\ processed' = processed + 1
    /\ UNCHANGED <<vstatus, evidence, cloud_queue, emailVars, cattempt, cresult, apiSeen,
                   cprobe, cret>>
    /\ UNCHANGED <<extraVars, trackerVars, packVars, confVars, storeVars, ruleVars, tempVars>>

\* The process dies inside process_batch.
CloudCrash ==
    /\ cpc # "idle"
    /\ cpc' = "idle"
    /\ csnap' = <<>>
    /\ cattempt' = 0
    /\ cresult' = "none"
    /\ processed' = 0
    /\ UNCHANGED <<dbVars, emailVars, apiSeen, cprobe, cret>>
    /\ UNCHANGED <<extraVars, trackerVars, packVars, confVars, storeVars, ruleVars, tempVars>>

(***************************************************************************)
(* StorageManager.check_and_cleanup: the passes that write violation       *)
(* statuses (_delete_non_violation_footage, _delete_oldest_completed)      *)
(***************************************************************************)
VOrder == <<"v1", "v2">>        \* the violations, oldest timestamp first

\* get_violations_by_status(status), oldest first
RECURSIVE ByStatus(_, _, _)
ByStatus(vs, status, i) ==
    IF i > Len(VOrder) THEN <<>>
    ELSE (IF vs[VOrder[i]] = status THEN <<VOrder[i]>> ELSE <<>>)
         \o ByStatus(vs, status, i + 1)

\* update_violation_status(vid, "cleaned") for each vid of the list
RECURSIVE MarkCleaned(_, _)
MarkCleaned(vs, vids) ==
    IF vids = <<>> THEN vs
    ELSE MarkCleaned([vs EXCEPT ![Head(vids)] = "cleaned"], Tail(vids))

\* check_and_cleanup with the disk over the threshold: every discarded
\* violation is cleaned; if the disk is still over the threshold
\* (stillOver), the sent violations are cleaned oldest first until the
\* usage is below the threshold again, which takes `need` of them.
CleanedBy(vs, stillOver, need) ==
    LET afterDiscarded == MarkCleaned(vs, ByStatus(vs, "discarded", 1))
        sent == ByStatus(afterDiscarded, "sent", 1)
    IN  IF stillOver
        THEN MarkCleaned(afterDiscarded, FirstN(sent, need))
        ELSE afterDiscarded

\* shutil.rmtree of the evidence directory of every violation the pass
\* marks cleaned
RmTrees(ds, vs, vsNext) == {v \in ds : ~(vs[v] # "cleaned" /\ vsNext[v] = "cleaned")}

CheckAndCleanup(stillOver, need) ==
    /\ vstatus' = CleanedBy(vstatus, stillOver, need)
    /\ edirs' = RmTrees(edirs, vstatus, vstatus')
    /\ efiles' = RmTrees(efiles, vstatus, vstatus')
    /\ UNCHANGED <<evidence, email_queue, cloud_queue, emailVars, cloudVars>>
    /\ UNCHANGED <<extraVars, trackerVars, packVars, confVars, pkgVars, cleanVars, ruleVars, tempVars>>

\* time.monotonic() moves on while the sender runs or waits
MaxClock == 2 * Hour

EmailTick(dt) ==
    /\ now + dt <= MaxClock
    /\ now' = now + dt
    /\ UNCHANGED <<counters, cooldowns, report_times, fpc, ridx, dets, out,
                   lastOut, lastGps, nframes, emitted, streak, steady>>
    /\ UNCHANGED <<extraVars, tempVars, queueVars, trackerVars, packVars, confVars, storeVars>>

Holding(p) == epc[p] \in {"leased", "no_report", "sent", "send_failed", "error"}

QueueInit ==
    /\ vstatus = [v \in VIds |-> "absent"]
    /\ evidence = {}
    /\ email_queue = <<>>
    /\ cloud_queue = <<>>
    /\ send_times = <<>>
    /\ epc = [p \in Procs |-> "idle"]
    /\ esnap = [p \in Procs |-> <<>>]
    /\ delivered = [j \in 1..MaxEmailRows |-> 0]
    /\ sentLog = <<>>
    /\ rateStopped = FALSE
    /\ attemptsMade = [j \in 1..MaxEmailRows |-> 0]
    /\ sendCalls = [j \in 1..MaxEmailRows |-> 0]
    /\ lastSleep = [id |-> 0, sends |-> 0, seconds |-> 0]
    /\ cpc = "idle"
    /\ csnap = <<>>
    /\ cattempt = 0
    /\ cresult = "none"
    /\ apiSeen = [j \in 1..MaxCloudRows |-> {}]
    /\ processed = 0
    /\ cprobe = "none"
    /\ cret = -1


(***************************************************************************)
(* BoundingBox.iou and IOUTracker                                          *)
(***************************************************************************)
Box(x1, x2) == [x1 |-> x1, y1 |-> 0, x2 |-> x2, y2 |-> 1]

\* Boxes a detector may report: the first two overlap with IoU exactly
\* 3/10, the last is far from both.
Boxes == {Box(0, 6), Box(3, 10), Box(20, 26)}

\* BoundingBox.area = width * height, each max(0, .)
Area(b) == Max2(0, b.x2 - b.x1) * Max2(0, b.y2 - b.y1)

InterArea(a, b) ==
    Max2(0, Min2(a.x2, b.x2) - Max2(a.x1, b.x1))
        * Max2(0, Min2(a.y2, b.y2) - Max2(a.y1, b.y1))

UnionArea(a, b) == Area(a) + Area(b) - InterArea(a, b)

IouAtLeast_Strict(a, b, num, den) ==
    /\ UnionArea(a, b) > 0
    /\ InterArea(a, b) * den > num * UnionArea(a, b)

\* a.iou(b) >= num/den; the iou is 0.0 when the union is not positive
IouAtLeast(a, b, num, den) ==
    /\ UnionArea(a, b) > 0
    /\ InterArea(a, b) * den >= num * UnionArea(a, b)

\* a.iou(b) > c.iou(d), for pairs with a positive union
IouGreater(a, b, c, d) ==
    InterArea(a, b) * UnionArea(c, d) > InterArea(c, d) * UnionArea(a, b)

\* The assignments list: detections outermost, trks innermost
RECURSIVE Assignments(_, _, _, _)
Assignments(ts, detections, di, ti) ==
    IF di > Len(detections) THEN <<>>
    ELSE IF ti > Len(ts) THEN Assignments(ts, detections, di + 1, 1)
    ELSE (IF IouAtLeast(detections[di], ts[ti].bbox, IouThresholdNum, IouThresholdDen)
          THEN <<[ti |-> ti, di |-> di]>> ELSE <<>>)
         \o Assignments(ts, detections, di, ti + 1)

\* list.sort(key=iou, reverse=True) is stable: x goes behind every entry
\* whose iou is not smaller than its own
RECURSIVE InsertByIou(_, _, _, _)
InsertByIou(sorted, x, ts, detections) ==
    IF sorted = <<>> THEN <<x>>
    ELSE IF IouGreater(detections[x.di], ts[x.ti].bbox,
                       detections[Head(sorted).di], ts[Head(sorted).ti].bbox)
         THEN <<x>> \o sorted
         ELSE <<Head(sorted)>> \o InsertByIou(Tail(sorted), x, ts, detections)

SortByIou_Unsorted(asg, ts, detections) == asg

RECURSIVE SortByIou(_, _, _)
SortByIou(asg, ts, detections) ==
    IF asg = <<>> THEN <<>>
    ELSE InsertByIou(SortByIou(SubSeq(asg, 1, Len(asg) - 1), ts, detections),
                     asg[Len(asg)], ts, detections)

\* The greedy loop: the pairs [ti, di] it matches
RECURSIVE GreedyMatch(_, _)
GreedyMatch(asg, matched) ==
    IF asg = <<>> THEN matched
    ELSE LET a == Head(asg)
         IN  IF \E m \in matched : m.ti = a.ti \/ m.di = a.di
             THEN GreedyMatch(Tail(asg), matched)
             ELSE GreedyMatch(Tail(asg), matched \cup {a})

Matching(ts, detections) ==
    GreedyMatch(SortByIou(Assignments(ts, detections, 1, 1), ts, detections), {})

\* Detections di..Len(detections) outside matched_dets, in order
RECURSIVE UnmatchedDets(_, _, _)
UnmatchedDets(detections, matched, di) ==
    IF di > Len(detections) THEN <<>>
    ELSE (IF \E m \in matched : m.di = di THEN <<>> ELSE <<di>>)
         \o UnmatchedDets(detections, matched, di + 1)

\* Position of x in the sequence sq (x occurs once)
IndexOf(sq, x) == CHOOSE i \in 1..Len(sq) : sq[i] = x

\* missing_frames of a track that was not matched in this call
MissedCount_NewExempt(t, isNew) == IF isNew THEN 0 ELSE t.missing_frames + 1

MissedCount(t, isNew) == t.missing_frames + 1

NextIdAfter_Stuck(nid, n) == nid

\* _next_id after n new tracks: self._next_id += 1 for each
NextIdAfter(nid, n) == nid + n

\* What update does to (_tracks, _next_id) and the ids it returns
TrackerUpdate(ts, nid, detections) ==
    IF ts = <<>>
    THEN [tracks |-> [i \in 1..Len(detections) |->
                        [track_id |-> nid + i - 1, bbox |-> detections[i],
                         missing_frames |-> 0]],
          next_id |-> NextIdAfter(nid, Len(detections)),
          ids |-> [i \in 1..Len(detections) |-> nid + i - 1],
          created |-> [i \in 1..Len(detections) |-> nid + i - 1]]
    ELSE LET matched == Matching(ts, detections)
             fresh == UnmatchedDets(detections, matched, 1)
             idOf(di) == IF \E m \in matched : m.di = di
                         THEN ts[(CHOOSE m \in matched : m.di = di).ti].track_id
                         ELSE nid + IndexOf(fresh, di) - 1
             old == [ti \in 1..Len(ts) |->
                       IF \E m \in matched : m.ti = ti
                       THEN [ts[ti] EXCEPT
                               !.bbox = detections[(CHOOSE m \in matched : m.ti = ti).di],
                               !.missing_frames = 0]
                       ELSE [ts[ti] EXCEPT
                               !.missing_frames = MissedCount(ts[ti], FALSE)]]
             new == [k \in 1..Len(fresh) |->
                       LET t == [track_id |-> nid + k - 1, bbox |-> detections[fresh[k]],
                                 missing_frames |-> 0]
                       IN  [t EXCEPT !.missing_frames = MissedCount(t, TRUE)]]
         IN  [tracks |-> SelectSeq(old \o new,
                            LAMBDA t : t.missing_frames <= MaxMissingFrames),
              next_id |-> NextIdAfter(nid, Len(fresh)),
              ids |-> [di \in 1..Len(detections) |-> idOf(di)],
              created |-> [k \in 1..Len(fresh) |-> nid + k - 1]]

\* Detection lists of one frame: distinct boxes, in every order
DetLists ==
    {d \in UNION {[1..n -> Boxes] : n \in 0..MaxDets} :
        \A i, j \in 1..Len(d) : i # j => d[i] # d[j]}

\* IOUTracker.update(detections)
Update(detections) ==
    /\ nupdates < MaxUpdates
    /\ \E r \in {TrackerUpdate(trks, next_id, detections)} :
           /\ trks' = r.tracks
           /\ next_id' = r.next_id
           /\ tids' = r.ids
           /\ assigned' = assigned \o r.created
           /\ missRun' = [id \in 1..(Len(assigned) + Len(r.created)) |->
                            IF \E di \in 1..Len(r.ids) : r.ids[di] = id
                            THEN 0
                            ELSE IF id > Len(missRun) THEN 0
                            ELSE Min2(missRun[id] + 1, MaxMissingFrames + 1)]
    /\ tdets' = detections
    /\ prevTracks' = trks
    /\ nupdates' = nupdates + 1
    /\ UNCHANGED <<extraVars, ruleVars, tempVars, queueVars, packVars, confVars, storeVars>>

TrackerInit ==
    /\ trks = <<>>
    /\ next_id = 1
    /\ tdets = <<>>
    /\ tids = <<>>
    /\ prevTracks = <<>>
    /\ assigned = <<>>
    /\ missRun = <<>>
    /\ nupdates = 0

(***************************************************************************)
(* EvidencePackager: _process_video, _encode_video_clip,                   *)
(* _encode_with_fallback, _try_hw_encode, _try_sw_encode                   *)
(***************************************************************************)
\* What subprocess.run of ffmpeg does: exit 0, exit non-zero, raise
\* FileNotFoundError, raise TimeoutExpired, raise anything else
\* (PermissionError, MemoryError, ...).
RunOutcomes == {"ok", "nonzero", "not_found", "timeout", "other_error"}

\* _try_hw_encode / _try_sw_encode: "true", "false", or "raise" when the
\* exception is not one of the two the except clause names
TryEncode(o) ==
    CASE o = "ok" -> "true"
      [] o \in {"nonzero", "not_found", "timeout"} -> "false"
      [] o = "other_error" -> "raise"

\* _encode_with_fallback: the encoders tried, in order, and the result
EncodeWithFallback(hw, sw) ==
    IF TryEncode(hw) = "true" THEN [tried |-> <<"hw">>, result |-> "true"]
    ELSE IF TryEncode(hw) = "raise" THEN [tried |-> <<"hw">>, result |-> "raise"]
    ELSE [tried |-> <<"hw", "sw">>, result |-> TryEncode(sw)]

\* _process_video: nothing for an empty clip; otherwise encode, move the
\* file to the evidence directory (move), hash it and insert its
\* evidence_files row (db); any exception is logged and None is returned.
ProcessVideo(clip, hw, sw, move, db) ==
    IF ~clip
    THEN [tried |-> <<>>, video_clip_path |-> "None", raised |-> FALSE]
    ELSE LET e == EncodeWithFallback(hw, sw)
         IN  [tried |-> e.tried,
              video_clip_path |->
                  IF e.result = "true" /\ move /\ db THEN "clip.mp4" ELSE "None",
              raised |-> FALSE]

\* One clip encoding of package()
EncodeClip(clip, hw, sw, move, db) ==
    /\ pkIn' = [clip |-> clip, hw |-> hw, sw |-> sw, move |-> move, db |-> db]
    /\ pkOut' = ProcessVideo(clip, hw, sw, move, db)
    /\ UNCHANGED <<extraVars, ruleVars, tempVars, queueVars, trackerVars, storeVars, confVars>>

PackInit ==
    /\ pkIn = [clip |-> FALSE, hw |-> "ok", sw |-> "ok", move |-> TRUE, db |-> TRUE]
    /\ pkOut = [tried |-> <<>>, video_clip_path |-> "None", raised |-> FALSE]

(***************************************************************************)
(* EvidencePackager.package, one step per database statement or file       *)
(***************************************************************************)
\* One iteration of the loop of _process_frames: it raises nothing; it
\* raises before the JPEG is in the evidence directory (annotate, imwrite,
\* read_bytes, _atomic_move); or insert_evidence_file raises.
FrameOutcomes == {"ok", "encode_error", "insert_error"}

FrameName(i) == <<"frame", i>>
ClipName == <<"clip.mp4", 0>>
EmptyPacket == [frames |-> <<>>, hashes |-> {}, video_clip_path |-> "None"]

\* PRAGMA foreign_keys=ON: a row of evidence_files needs its violation
FkHolds(vs, v) == vs[v] # "absent"

\* Where package goes once the directory and the metadata exist: to
\* _persist_violation, before _process_frames
AfterMkdir_SkipPersist == "frames"

AfterMkdir == "persist"

\* uuid4, mkdir of the evidence directory, frame selection, metadata
PK_Begin(v, n, clip) ==
    /\ kpc = "idle"
    /\ vstatus[v] = "absent"
    /\ v \notin edirs
    /\ n > 0 => clip
    /\ edirs' = edirs \cup {v}
    /\ kvid' = v
    /\ kn' = n
    /\ kidx' = 0
    /\ kclip' = clip
    /\ packet' = EmptyPacket
    /\ kok' = {}
    /\ kclipOk' = FALSE
    /\ kpc' = AfterMkdir
    /\ kfiles' = {}
    /\ UNCHANGED <<efiles, cleanVars, queueVars>>
    /\ UNCHANGED <<selVars, verVars, ruleVars, tempVars, trackerVars, packVars, confVars>>

\* _persist_violation
PK_Persist ==
    /\ kpc = "persist"
    /\ vstatus' = [vstatus EXCEPT ![kvid] = "pending"]
    /\ kpc' = "frames"
    /\ UNCHANGED kfiles
    /\ UNCHANGED <<evidence, email_queue, cloud_queue, emailVars, cloudVars>>
    /\ UNCHANGED <<diskVars, kvid, kn, kidx, kclip, packet, kok, kclipOk, cleanVars>>
    /\ UNCHANGED <<selVars, verVars, ruleVars, tempVars, trackerVars, packVars, confVars>>

\* One iteration of the loop of _process_frames
PK_Frame(outcome) ==
    /\ kpc = "frames"
    /\ kidx < kn
    /\ LET written == outcome # "encode_error"
           row == outcome = "ok" /\ FkHolds(vstatus, kvid)
       IN  /\ edirs' = IF written THEN edirs \cup {kvid} ELSE edirs
           /\ efiles' = IF written THEN efiles \cup {kvid} ELSE efiles
           /\ kfiles' = IF written THEN kfiles \cup {FrameName(kidx)} ELSE kfiles
           /\ packet' = IF written
                        THEN [packet EXCEPT !.frames = Append(@, kidx),
                                            !.hashes = @ \cup {FrameName(kidx)}]
                        ELSE packet
           /\ evidence' = IF row THEN evidence \cup {kvid} ELSE evidence
           /\ kok' = IF row THEN kok \cup {kidx} ELSE kok
    /\ kidx' = kidx + 1
    /\ UNCHANGED <<vstatus, email_queue, cloud_queue, emailVars, cloudVars>>
    /\ UNCHANGED <<kpc, kvid, kn, kclip, kclipOk, cleanVars>>
    /\ UNCHANGED <<selVars, verVars, ruleVars, tempVars, trackerVars, packVars, confVars>>

\* _process_video and the return of package
PK_Video(hw, sw, move, db) ==
    /\ kpc = "frames"
    /\ kidx = kn
    /\ LET stored == kclip /\ EncodeWithFallback(hw, sw).result = "true" /\ move
           r == ProcessVideo(kclip, hw, sw, move, db /\ FkHolds(vstatus, kvid))
           row == r.video_clip_path # "None"
       IN  /\ edirs' = IF stored THEN edirs \cup {kvid} ELSE edirs
           /\ efiles' = IF stored THEN efiles \cup {kvid} ELSE efiles
           /\ kfiles' = IF stored THEN kfiles \cup {ClipName} ELSE kfiles
           /\ packet' = [packet EXCEPT
                           !.hashes = IF stored THEN @ \cup {ClipName} ELSE @,
                           !.video_clip_path = r.video_clip_path]
           /\ evidence' = IF row THEN evidence \cup {kvid} ELSE evidence
           /\ kclipOk' = row
    /\ kpc' = "idle"
    /\ UNCHANGED <<vstatus, email_queue, cloud_queue, emailVars, cloudVars>>
    /\ UNCHANGED <<kvid, kn, kidx, kclip, kok, cleanVars>>
    /\ UNCHANGED <<selVars, verVars, ruleVars, tempVars, trackerVars, packVars, confVars>>

\* update_violation_status(violation_id, "verified" | "discarded") of
\* process_batch, for a violation whose packaging is over and that has
\* evidence rows
SetVerdict(v, status) ==
    /\ vstatus[v] = "pending"
    /\ v \in evidence
    /\ ~(kpc # "idle" /\ kvid = v)
    /\ vstatus' = [vstatus EXCEPT ![v] = status]
    /\ UNCHANGED <<evidence, email_queue, cloud_queue, emailVars, cloudVars>>
    /\ UNCHANGED <<extraVars, storeVars, ruleVars, tempVars, trackerVars, packVars, confVars>>

(***************************************************************************)
(* StorageManager.check_and_cleanup, one step per database statement or    *)
(* directory removal                                                       *)
(***************************************************************************)
\* delete_old_violations: the rows it deletes, `old` being the violations
\* whose timestamp is before the cutoff
DeletedOld(vs, old) == {v \in old : vs[v] \notin {"absent", "pending", "processing"}}

\* ON DELETE CASCADE of evidence_files
CascadeEvidence_None(ev, deleted) == ev

CascadeEvidence(ev, deleted) == ev \ deleted

\* ON DELETE CASCADE of cloud_queue and email_queue
CascadeQueue(q, deleted) == SelectSeq(q, LAMBDA r : r.violation_id \notin deleted)

\* _delete_old_evidence up to the call of _cleanup_orphan_dirs
SC_DeleteOld(old) ==
    /\ spc = "idle"
    /\ LET deleted == DeletedOld(vstatus, old)
       IN  /\ vstatus' = [v \in VIds |-> IF v \in deleted THEN "absent" ELSE vstatus[v]]
           /\ evidence' = CascadeEvidence(evidence, deleted)
           /\ email_queue' = CascadeQueue(email_queue, deleted)
           /\ cloud_queue' = CascadeQueue(cloud_queue, deleted)
           /\ IF deleted # {}
              THEN spc' = "orphans" /\ sdirs' = edirs
              ELSE spc' = "threshold" /\ sdirs' = {}
    /\ UNCHANGED <<scand, diskVars, pkgVars, emailVars, cloudVars>>
    /\ UNCHANGED <<extraVars, ruleVars, tempVars, trackerVars, packVars, confVars>>

\* _cleanup_orphan_dirs: get_violation(entry.name) for the next entry
SC_OrphanEntry(entry) ==
    /\ spc = "orphans"
    /\ entry \in sdirs
    /\ sdirs' = sdirs \ {entry}
    /\ IF vstatus[entry] = "absent"
       THEN scand' = entry /\ spc' = "rmtree"
       ELSE UNCHANGED <<scand, spc>>
    /\ UNCHANGED <<diskVars, pkgVars, queueVars>>
    /\ UNCHANGED <<extraVars, ruleVars, tempVars, trackerVars, packVars, confVars>>

\* _cleanup_orphan_dirs: shutil.rmtree(entry)
SC_Rmtree ==
    /\ spc = "rmtree"
    /\ edirs' = edirs \ {scand}
    /\ efiles' = efiles \ {scand}
    /\ scand' = "none"
    /\ spc' = "orphans"
    /\ UNCHANGED <<sdirs, pkgVars, queueVars>>
    /\ UNCHANGED <<extraVars, ruleVars, tempVars, trackerVars, packVars, confVars>>

\* _cleanup_orphan_dirs returns
SC_OrphansDone ==
    /\ spc = "orphans"
    /\ sdirs = {}
    /\ spc' = "threshold"
    /\ UNCHANGED <<sdirs, scand, diskVars, pkgVars, queueVars>>
    /\ UNCHANGED <<extraVars, ruleVars, tempVars, trackerVars, packVars, confVars>>

\* The threshold check and the passes behind it, and the return
SC_Threshold(over, stillOver, need) ==
    /\ spc = "threshold"
    /\ vstatus' = IF over THEN CleanedBy(vstatus, stillOver, need) ELSE vstatus
    /\ edirs' = RmTrees(edirs, vstatus, vstatus')
    /\ efiles' = RmTrees(efiles, vstatus, vstatus')
    /\ spc' = "idle"
    /\ UNCHANGED <<evidence, email_queue, cloud_queue, emailVars, cloudVars>>
    /\ UNCHANGED <<sdirs, scand, pkgVars>>
    /\ UNCHANGED <<extraVars, ruleVars, tempVars, trackerVars, packVars, confVars>>

StoreInit ==
    /\ edirs = {}
    /\ efiles = {}
    /\ kpc = "idle"
    /\ kvid = "none"
    /\ kn = 0
    /\ kidx = 0
    /\ kclip = FALSE
    /\ packet = EmptyPacket
    /\ kok = {}
    /\ kclipOk = FALSE
    /\ kfiles = {}
    /\ spc = "idle"
    /\ sdirs = {}
    /\ scand = "none"

(***************************************************************************)
(* ConfidenceAggregator. Confidences are percentages; component scores are *)
(* multiples of 1/ScoreSteps and compute returns a fraction.               *)
(***************************************************************************)
ConfPoints == 0..100

MeetsLocalThreshold(confidence, threshold) == confidence >= threshold

NeedsCloudVerification_Inclusive(confidence, low, high) ==
    low <= confidence /\ confidence <= high

NeedsCloudVerification(confidence, low, high) ==
    low <= confidence /\ confidence < high

ShouldDiscard(confidence, threshold) == confidence < threshold

\* The three predicates with their default thresholds
Route(confidence) ==
    /\ rconf' = confidence
    /\ rband' = [local |-> MeetsLocalThreshold(confidence, LocalThreshold),
                 cloud |-> NeedsCloudVerification(confidence, CloudLow, CloudHigh),
                 discard |-> ShouldDiscard(confidence, DiscardThreshold)]
    /\ UNCHANGED <<cin, cres>>
    /\ UNCHANGED <<extraVars, ruleVars, tempVars, queueVars, trackerVars, packVars, storeVars>>

\* max(0.0, min(1.0, result))
Clamp01(num, den) == [num |-> Max2(0, Min2(den, num)), den |-> den]

\* min(1.0, max(0.0, temporal_ratio))
TemporalClamped(t) == Min2(ScoreSteps, Max2(0, t))

\* The denominator the redistribution gives the weighted sum: every weight
\* is multiplied by 1 / total_active
ScaledDen_Dropped(total_active) == WeightUnit * ScoreSteps

ScaledDen(total_active) == total_active * ScoreSteps

\* compute with the default weights
Compute(d, c, t, ocr) ==
    LET base == d * WeightDetection + c * WeightClassification
                  + TemporalClamped(t) * WeightTemporal
        total_active == WeightDetection + WeightClassification + WeightTemporal
    IN  IF ocr # NoOcr
        THEN Clamp01(base + ocr * WeightOcr, WeightUnit * ScoreSteps)
        ELSE IF total_active > 0
             THEN Clamp01(base, ScaledDen(total_active))
             ELSE Clamp01(base, WeightUnit * ScoreSteps)

ComputeCall(d, c, t, ocr) ==
    /\ cin' = [d |-> d, c |-> c, t |-> t, ocr |-> ocr]
    /\ cres' = Compute(d, c, t, ocr)
    /\ UNCHANGED <<rconf, rband>>
    /\ UNCHANGED <<extraVars, ruleVars, tempVars, queueVars, trackerVars, packVars, storeVars>>

ConfInit ==
    /\ rconf = 0
    /\ rband = [local |-> FALSE, cloud |-> FALSE, discard |-> TRUE]
    /\ cin = [d |-> 0, c |-> 0, t |-> 0, ocr |-> NoOcr]
    /\ cres = Compute(0, 0, 0, NoOcr)

(***************************************************************************)
(* EvidencePackager._select_best_frames. A clip frame is its frame_id, a   *)
(* FrameData of the candidate is [frame_id, detections], detections being  *)
(* the list of the confidences of its detections.                          *)
(***************************************************************************)
FrameIds == 1..MaxClipFrames

\* sum(d.bbox.confidence for d in fd.detections) if fd.detections else 0.0
RECURSIVE TotalConf(_)
TotalConf(detections) ==
    IF detections = <<>> THEN 0
    ELSE Head(detections) + TotalConf(Tail(detections))

\* frame_scores after the loop over violation.frames
RECURSIVE FrameScores(_, _)
FrameScores(frames, frame_scores) ==
    IF frames = <<>> THEN frame_scores
    ELSE LET fd == Head(frames)
         IN  FrameScores(Tail(frames),
                 [id \in DOMAIN frame_scores \cup {fd.frame_id} |->
                     IF id = fd.frame_id THEN TotalConf(fd.detections)
                     ELSE frame_scores[id]])

\* scored: (bf, frame_scores.get(bf.frame_id, 0.0)) for every clip frame
Scored(clip_frames, frame_scores) ==
    [i \in 1..Len(clip_frames) |->
        [bf |-> clip_frames[i],
         score |-> IF clip_frames[i] \in DOMAIN frame_scores
                   THEN frame_scores[clip_frames[i]] ELSE 0]]

\* The stable sort by descending score keeps an element a that stood before
\* x in the list in front of x unless x has the strictly higher score.
StaysBefore_StrictOnly(a, x) == a.score > x.score

StaysBefore(a, x) == a.score >= x.score

RECURSIVE InsertByScore(_, _)
InsertByScore(x, sorted) ==
    IF sorted = <<>> THEN <<x>>
    ELSE IF StaysBefore(Head(sorted), x)
         THEN <<Head(sorted)>> \o InsertByScore(x, Tail(sorted))
         ELSE <<x>> \o sorted

\* scored.sort(key=lambda x: x[1], reverse=True)
RECURSIVE SortByScore(_)
SortByScore(scored) ==
    IF scored = <<>> THEN <<>>
    ELSE InsertByScore(scored[Len(scored)],
                       SortByScore(SubSeq(scored, 1, Len(scored) - 1)))

SelectBestFrames(frames, clip_frames, count) ==
    IF clip_frames = <<>> THEN <<>>
    ELSE LET scored == SortByScore(Scored(clip_frames, FrameScores(frames, EmptyFn)))
         IN  [i \in 1..Min2(count, Len(scored)) |-> scored[i].bf]

SelectBestFramesCall ==
    /\ ~sbRan
    /\ sbOut' = SelectBestFrames(sbIn.frames, sbIn.clip_frames, sbIn.count)
    /\ sbRan' = TRUE
    /\ UNCHANGED sbIn
    /\ UNCHANGED <<ruleVars, tempVars, queueVars, trackerVars, packVars, storeVars,
                   confVars, kfiles, verVars>>

SelInit ==
    /\ sbIn = [frames |-> <<>>, clip_frames |-> <<>>, count |-> 0]
    /\ sbOut = <<>>
    /\ sbRan = FALSE

(***************************************************************************)
(* CloudVerifier.verify, one step per API call and per sleep.  What an API *)
(* call does: it raises httpx.TimeoutException ("timeout"),                *)
(* httpx.HTTPStatusError ("http_error") or anything else ("error"); or it  *)
(* returns a response that _parse_response reads as a confirmation         *)
(* ("confirmed") or as a rejection ("rejected"), that makes it raise one   *)
(* of JSONDecodeError, KeyError, IndexError, which it catches              *)
(* ("unparsable"), or that makes it raise something else, as float() of a  *)
(* confidence that is no number does ("bad_field").                        *)
(***************************************************************************)
CallRaises == {"timeout", "http_error", "error"}
CallReturns == {"confirmed", "rejected", "unparsable", "bad_field"}
Providers == {"gemini", "vertex_ai", "unknown"}

\* VerificationResult(confirmed=False, confidence=0.0)
Unconfirmed == [confirmed |-> FALSE, confidence |-> 0, raw |-> 0]

\* _parse_response(raw) where it returns, raw being the response of call n
ParseResponse(response, n) ==
    CASE response = "confirmed" -> [confirmed |-> TRUE, confidence |-> 90, raw |-> n]
      [] response = "rejected" -> [confirmed |-> FALSE, confidence |-> 40, raw |-> n]
      [] response = "unparsable" -> [confirmed |-> FALSE, confidence |-> 0, raw |-> n]

\* The iteration of the retry loop ends in one of the except clauses
IterationRaises(outcome) == outcome \in CallRaises \cup {"bad_field"}

\* if attempt < self._max_retries
MoreAttempts(attempt) == attempt < MaxRetries

\* verify up to the retry loop: the two early returns
V_Start(api_key, frames, provider) ==
    /\ vpc = "idle"
    /\ ~vdone
    /\ vprovider' = provider
    /\ IF (~api_key /\ provider # "vertex_ai") \/ ~frames \/ MaxRetries < 1
       THEN /\ vret' = Unconfirmed
            /\ vdone' = TRUE
            /\ UNCHANGED <<vpc, vattempt>>
       ELSE /\ vpc' = "try"
            /\ vattempt' = 1
            /\ UNCHANGED <<vret, vdone>>
    /\ UNCHANGED <<vlog, vsleeps>>
    /\ UNCHANGED <<ruleVars, tempVars, queueVars, trackerVars, packVars, storeVars,
                   confVars, selVars, kfiles>>

\* The try block of one iteration and its except clauses
V_Call(outcome) ==
    /\ vpc = "try"
    /\ IF vprovider = "unknown"
       THEN /\ vret' = Unconfirmed
            /\ vdone' = TRUE
            /\ vpc' = "idle"
            /\ UNCHANGED <<vlog, vattempt>>
       ELSE /\ vlog' = Append(vlog, outcome)
            /\ IF ~IterationRaises(outcome)
               THEN /\ vret' = ParseResponse(outcome, Len(vlog) + 1)
                    /\ vdone' = TRUE
                    /\ vpc' = "idle"
                    /\ UNCHANGED vattempt
               ELSE IF MoreAttempts(vattempt)
               THEN /\ vpc' = "sleep"
                    /\ UNCHANGED <<vret, vdone, vattempt>>
               ELSE /\ vret' = Unconfirmed
                    /\ vdone' = TRUE
                    /\ vpc' = "idle"
                    /\ UNCHANGED vattempt
    /\ UNCHANGED <<vprovider, vsleeps>>
    /\ UNCHANGED <<ruleVars, tempVars, queueVars, trackerVars, packVars, storeVars,
                   confVars, selVars, kfiles>>

\* backoff = 2 ** attempt; time.sleep(backoff); and the next iteration
V_Sleep ==
    /\ vpc = "sleep"
    /\ vsleeps' = Append(vsleeps, Pow2(vattempt))
    /\ vattempt' = vattempt + 1
    /\ vpc' = "try"
    /\ UNCHANGED <<vprovider, vlog, vret, vdone>>
    /\ UNCHANGED <<ruleVars, tempVars, queueVars, trackerVars, packVars, storeVars,
                   confVars, selVars, kfiles>>

VerInit ==
    /\ vpc = "idle"
    /\ vprovider = "gemini"
    /\ vattempt = 0
    /\ vlog = <<>>
    /\ vsleeps = <<>>
    /\ vret = Unconfirmed
    /\ vdone = FALSE

RuleInit ==
    /\ counters = EmptyFn
    /\ cooldowns = EmptyFn
    /\ report_times = <<>>
    /\ now = 0
    /\ fpc = "idle"
    /\ ridx = 0
    /\ dets = {}
    /\ out = <<>>
    /\ lastOut = <<>>
    /\ lastGps = NoGps
    /\ nframes = 0
    /\ emitted = <<>>
    /\ streak = [k \in Keys |-> 0]
    /\ steady = Keys

TempInit ==
    /\ calls = [k \in Keys |-> <<>>]
    /\ lastCall = [key |-> <<"none", 0>>, cond |-> FALSE, min_frames |-> 0,
                   ret |-> FALSE]

BaseInit ==
    /\ RuleInit /\ TempInit /\ QueueInit /\ TrackerInit
    /\ PackInit /\ StoreInit /\ ConfInit

Init == BaseInit /\ SelInit /\ VerInit

vars == <<ruleVars, tempVars, queueVars, trackerVars, packVars, storeVars,
         confVars, extraVars>>

\* Frames of one rider whose hits may or may not clear the threshold, with
\* and without GPS, arriving at once or a cooldown apart: no_helmet may
\* report the rider several times in a frame, red_light_jump at most once.
GateHits(vtype) ==
    IF vtype = "no_helmet"
    THEN HitLists({1}, Confs)
    ELSE {h \in HitLists({1}, Confs) : Len(h) <= 1}

GateNext ==
    \/ \E dt \in {0, DefaultCooldown}, gps \in GpsInputs, d \in SUBSET {1} :
          BeginFrame(dt, gps, d)
    \/ /\ fpc = "rules"
       /\ \E hits \in GateHits(RuleOrder[ridx]) : EvalRule(hits)

GateSpec == Init /\ [][GateNext]_vars

\* The frames of GateSpec arriving a cooldown apart
GateSpacedNext ==
    \/ \E gps \in GpsInputs, d \in SUBSET {1} :
          BeginFrame(DefaultCooldown, gps, d)
    \/ /\ fpc = "rules"
       /\ \E hits \in GateHits(RuleOrder[ridx]) : EvalRule(hits)

GateSpacedSpec == Init /\ [][GateSpacedNext]_vars

\* Moving frames showing both riders, every hit clearing the threshold,
\* arriving at once, a cooldown apart or an hour apart: no_helmet reports
\* any of the riders, each at most once, red_light_jump the first rider.
ReportHits(vtype) ==
    IF vtype = "no_helmet"
    THEN {h \in HitLists(Tracks, {90}) : Cardinality(ActiveHits(h)) = Len(h)}
    ELSE {h \in HitLists({1}, {90}) : Len(h) <= 1}

ReportNext ==
    \/ \E dt \in TickSet : BeginFrame(dt, 25, Tracks)
    \/ /\ fpc = "rules"
       /\ \E hits \in ReportHits(RuleOrder[ridx]) : EvalRule(hits)

ReportSpec == Init /\ [][ReportNext]_vars

(***************************************************************************)
(* Direct calls of TemporalConsistencyChecker.update                       *)
(***************************************************************************)
RECURSIVE SumLen(_, _)
SumLen(f, ks) ==
    IF ks = {} THEN 0
    ELSE LET k == CHOOSE x \in ks : TRUE
         IN  Len(f[k]) + SumLen(f, ks \ {k})

UpdateCall(vtype, track, condition_met, min_frames) ==
    /\ fpc = "idle"
    /\ SumLen(calls, Keys) < MaxCalls
    /\ counters' = TemporalUpdate(counters, vtype, track, condition_met)
    /\ calls' = [calls EXCEPT ![<<vtype, track>>] = Append(@, condition_met)]
    /\ lastCall' = [key |-> <<vtype, track>>, cond |-> condition_met,
                    min_frames |-> min_frames,
                    ret |-> TemporalConfirmed(counters', vtype, track, min_frames)]
    /\ UNCHANGED <<cooldowns, report_times, now, fpc, ridx, dets, out,
                   lastOut, lastGps, nframes, emitted, streak, steady>>
    /\ UNCHANGED <<extraVars, queueVars, trackerVars, packVars, confVars, storeVars>>

TemporalNext ==
    \E k \in Keys, condition_met \in BOOLEAN, min_frames \in 1..MaxMinFrames :
        UpdateCall(k[1], k[2], condition_met, min_frames)

TemporalSpec == Init /\ [][TemporalNext]_vars

(***************************************************************************)
(* Specifications of the email queue                                       *)
(***************************************************************************)
SendOutcomes == {"sent", "send_failed", "error"}

DbNext ==
    \E v \in VIds :
        \/ InsertViolation(v)
        \/ InsertEvidenceFile(v)
        \/ EnqueueEmail(v)

EmailSteps(p) ==
    \/ PQ_Start(p)
    \/ PQ_Entry(p)
    \/ \E outcome \in SendOutcomes : PQ_Send(p, outcome)
    \/ PQ_Record(p)

\* Two invocations of process_queue on one database that holds one job.
EmailNext ==
    \/ InsertViolation("v1")
    \/ InsertEvidenceFile("v1")
    \/ email_queue = <<>> /\ EnqueueEmail("v1")
    \/ \E p \in Procs : EmailSteps(p)
    \/ EmailCrash

EmailSpec == Init /\ [][EmailNext]_vars

\* One invocation at a time, as a periodic task runs it, and no crash.
EmailSeqNext ==
    \/ DbNext
    \/ EmailSteps(1)

EmailSeqSpec == Init /\ [][EmailSeqNext]_vars

\* One invocation at a time over the jobs of one violation, whose evidence
\* rows may be there before the jobs, after them, or never.
EmailOneNext ==
    \/ InsertViolation("v1")
    \/ InsertEvidenceFile("v1")
    \/ EnqueueEmail("v1")
    \/ EmailSteps(1)

EmailOneSpec == Init /\ [][EmailOneNext]_vars

\* The same, where the invocation may be stopped at any point
EmailStopNext ==
    \/ EmailOneNext
    \/ PQ_Cancel(1)

EmailStopSpec == Init /\ [][EmailStopNext]_vars

\* One invocation at a time on the jobs of one violation, where the process
\* may die and restart; the timer keeps calling process_queue and a call
\* that runs keeps running.
EmailLiveNext ==
    \/ InsertViolation("v1")
    \/ InsertEvidenceFile("v1")
    \/ EnqueueEmail("v1")
    \/ EmailSteps(1)
    \/ EmailCrash

EmailLiveSpec ==
    Init /\ [][EmailLiveNext]_vars /\ WF_vars(EmailSteps(1))

\* One EmailSender, one invocation at a time, with the clock: jobs of one
\* violation, sends that succeed or fail, half an hour per tick.
EmailClockNext ==
    \/ InsertViolation("v1")
    \/ InsertEvidenceFile("v1")
    \/ EnqueueEmail("v1")
    \/ PQ_Start(1)
    \/ PQ_Entry(1)
    \/ \E outcome \in {"sent", "send_failed"} : PQ_Send(1, outcome)
    \/ PQ_Record(1)
    \/ EmailTick(Hour \div 2)

EmailClockSpec == Init /\ [][EmailClockNext]_vars

(***************************************************************************)
(* Specification of the cloud verification queue                           *)
(***************************************************************************)
ApiOutcomes == {"confirmed", "not_confirmed", "timeout", "error"}

CloudNext ==
    \/ \E v \in VIds :
        \/ InsertViolation(v)
        \/ InsertEvidenceFile(v)
        \/ EnqueueCloud(v)
    \/ \E online \in BOOLEAN : PB_Start(online)
    \/ PB_Entry
    \/ \E outcome \in ApiOutcomes : PB_ApiCall(outcome)
    \/ PB_MarkResult
    \/ PB_UpdateViolation
    \/ PB_EnqueueEmail
    \/ CloudCrash

CloudSpec == Init /\ [][CloudNext]_vars

\* process_batch over the jobs of one violation, online or offline
CloudOneNext ==
    \/ InsertViolation("v1")
    \/ InsertEvidenceFile("v1")
    \/ EnqueueCloud("v1")
    \/ \E online \in BOOLEAN : PB_Start(online)
    \/ PB_Entry
    \/ \E outcome \in ApiOutcomes : PB_ApiCall(outcome)
    \/ PB_MarkResult
    \/ PB_UpdateViolation
    \/ PB_EnqueueEmail
    \/ CloudCrash

CloudOneSpec == Init /\ [][CloudOneNext]_vars

\* process_batch runs to its return: the jobs of two violations
CloudRunNext ==
    \/ \E v \in VIds :
        \/ InsertViolation(v)
        \/ InsertEvidenceFile(v)
        \/ EnqueueCloud(v)
    \/ \E online \in BOOLEAN : PB_Start(online)
    \/ PB_Entry
    \/ \E outcome \in ApiOutcomes : PB_ApiCall(outcome)
    \/ PB_MarkResult
    \/ PB_UpdateViolation
    \/ PB_EnqueueEmail

CloudRunSpec == Init /\ [][CloudRunNext]_vars

(***************************************************************************)
(* Specification of the tracker                                            *)
(***************************************************************************)
TrackerNext == \E detections \in DetLists : Update(detections)

TrackerSpec == Init /\ [][TrackerNext]_vars

(***************************************************************************)
(* Specifications of the whole lifecycle of one violation                  *)
(***************************************************************************)
\* One violation, its cloud jobs, the cloud processor, the email sender
\* and the storage manager, one invocation of each at a time.
ProcessorSteps ==
    \/ PB_Start(TRUE)
    \/ PB_Entry
    \/ \E outcome \in {"confirmed", "not_confirmed"} : PB_ApiCall(outcome)
    \/ PB_MarkResult
    \/ PB_UpdateViolation
    \/ PB_EnqueueEmail
    \/ PQ_Start(1)
    \/ PQ_Entry(1)
    \/ \E outcome \in {"sent", "send_failed"} : PQ_Send(1, outcome)
    \/ PQ_Record(1)

LifecycleNext ==
    \/ InsertViolation("v1")
    \/ InsertEvidenceFile("v1")
    \/ EnqueueCloud("v1")
    \/ ProcessorSteps
    \/ \E stillOver \in BOOLEAN, need \in 1..Len(VOrder) :
          CheckAndCleanup(stillOver, need)

LifecycleSpec == Init /\ [][LifecycleNext]_vars

\* The same with a single cloud job for the violation, where every
\* processor that can take a step keeps running.
LifecycleOneJobNext ==
    \/ InsertViolation("v1")
    \/ InsertEvidenceFile("v1")
    \/ cloud_queue = <<>> /\ EnqueueCloud("v1")
    \/ ProcessorSteps
    \/ \E stillOver \in BOOLEAN, need \in 1..Len(VOrder) :
          CheckAndCleanup(stillOver, need)

LifecycleLiveSpec ==
    Init /\ [][LifecycleOneJobNext]_vars /\ WF_vars(ProcessorSteps)

(***************************************************************************)
(* Specifications of packaging and storage cleanup                         *)
(***************************************************************************)
PackageSteps ==
    \/ \E v \in VIds, n \in 0..MaxBestFrames, clip \in BOOLEAN : PK_Begin(v, n, clip)
    \/ PK_Persist
    \/ \E outcome \in FrameOutcomes : PK_Frame(outcome)
    \/ \E hw \in RunOutcomes, sw \in RunOutcomes, move \in BOOLEAN, db \in BOOLEAN :
          PK_Video(hw, sw, move, db)

\* package called again and again, nothing else running
PackageNext == PackageSteps

PackageSpec == Init /\ [][PackageNext]_vars

CleanupSteps ==
    \/ \E old \in SUBSET VIds : SC_DeleteOld(old)
    \/ \E entry \in VIds : SC_OrphanEntry(entry)
    \/ SC_Rmtree
    \/ SC_OrphansDone
    \/ \E over \in BOOLEAN, stillOver \in BOOLEAN, need \in 1..Len(VOrder) :
          SC_Threshold(over, stillOver, need)

\* package on the main loop, the verdicts of the cloud processor, and
\* check_and_cleanup on its own thread
StorageNext ==
    \/ PackageSteps
    \/ \E v \in VIds, status \in {"verified", "discarded"} : SetVerdict(v, status)
    \/ CleanupSteps

StorageSpec == Init /\ [][StorageNext]_vars

(***************************************************************************)
(* Specifications of the confidence aggregator                             *)
(***************************************************************************)
RouteNext == \E confidence \in ConfPoints : Route(confidence)

RouteSpec == Init /\ [][RouteNext]_vars

Scores == 0..ScoreSteps

ComputeNext ==
    \E d \in Scores, c \in Scores, t \in 0..(ScoreSteps + 2),
       ocr \in Scores \cup {NoOcr} :
        ComputeCall(d, c, t, ocr)

ComputeSpec == Init /\ [][ComputeNext]_vars

(***************************************************************************)
(* Specification of the clip encoding                                      *)
(***************************************************************************)
EncodeNext ==
    \E clip \in BOOLEAN, hw \in RunOutcomes, sw \in RunOutcomes,
       move \in BOOLEAN, db \in BOOLEAN :
        EncodeClip(clip, hw, sw, move, db)

EncodeSpec == Init /\ [][EncodeNext]_vars

(***************************************************************************)
(* Specification of the selection of the best frames: the arguments are    *)
(* drawn by the initial state and the call is made once.                   *)
(***************************************************************************)
ConfLists == {<<>>, <<50>>, <<90>>, <<50, 40>>}

\* The candidate's frames: at most one FrameData for a frame id
RECURSIVE FramesOf(_, _)
FramesOf(f, id) ==
    IF id > MaxClipFrames THEN <<>>
    ELSE (IF id \in DOMAIN f
          THEN <<[frame_id |-> id, detections |-> f[id]]>> ELSE <<>>)
         \o FramesOf(f, id + 1)

CandidateFrames ==
    {FramesOf(f, 1) : f \in UNION {[S -> ConfLists] : S \in SUBSET FrameIds}}

\* The frames of the buffer in the window of the clip, each held once
ClipLists ==
    {s \in UNION {[1..n -> FrameIds] : n \in 0..MaxClipFrames} :
        \A i \in DOMAIN s, j \in DOMAIN s : i # j => s[i] # s[j]}

SelectInit ==
    /\ BaseInit /\ VerInit
    /\ sbIn \in [frames : CandidateFrames, clip_frames : ClipLists,
                 count : 0..MaxBestFrames]
    /\ sbOut = <<>>
    /\ sbRan = FALSE

SelectNext == SelectBestFramesCall

SelectSpec == SelectInit /\ [][SelectNext]_vars

(***************************************************************************)
(* Specification of one call of CloudVerifier.verify                       *)
(***************************************************************************)
VerifyNext ==
    \/ \E api_key \in BOOLEAN, frames \in BOOLEAN, provider \in Providers :
          V_Start(api_key, frames, provider)
    \/ \E outcome \in CallRaises \cup CallReturns : V_Call(outcome)
    \/ V_Sleep

VerifySpec == Init /\ [][VerifyNext]_vars

(***************************************************************************)
(* Claims about the rule engine and the temporal checker                   *)
(***************************************************************************)
CandidatesOf(vtype, cands) ==
    {i \in 1..Len(cands) : cands[i].violation_type = vtype}

\* C5: process_frame emits a candidate for a (rule, track) pair only if the
\* rule produced a threshold-clearing hit for that track in each of the
\* min_consecutive_frames most recent frames (here: the most recent frames
\* that got past the speed gate, which asks less than the claim does).
C5_EmitOnlyAfterFullRun ==
    fpc = "idle" =>
      \A i \in 1..Len(lastOut) :
        streak[<<lastOut[i].violation_type, lastOut[i].track>>]
          >= MinFrames(lastOut[i].violation_type)

\* C6: from a fresh engine, a rule that yields one threshold-clearing hit
\* for the same track in every frame of a run of non-gated frames gives no
\* candidate on frames 1 .. min_frames-1 and exactly one on frame
\* min_frames, with consecutive_frame_count = min_frames.
C6_FirstCandidateOnFrameMinFrames ==
    fpc = "idle" /\ nframes >= 1 =>
      \A k \in steady :
        LET mine == CandidatesOf(k[1], lastOut)
        IN  /\ nframes < MinFrames(k[1]) => mine = {}
            /\ nframes = MinFrames(k[1]) =>
                 /\ Cardinality(mine) = 1
                 /\ \A i \in mine :
                      lastOut[i].consecutive_frame_count = MinFrames(k[1])

\* C7: any two candidates of the same violation type emitted by one engine
\* are at least that rule's cooldown_seconds apart.
C7_CooldownSpacing ==
    \A i, j \in 1..Len(emitted) :
      (i < j /\ emitted[i].type = emitted[j].type) =>
        emitted[j].time - emitted[i].time >= Cooldown(emitted[i].type)

\* Both riders are confirmed for no_helmet, and no_helmet was emitted twice.
C7_Witness ==
    /\ fpc = "idle"
    /\ \A tr \in Tracks : GetCount(counters, "no_helmet", tr) >= MinFrames("no_helmet")
    /\ Cardinality(CandidatesOf("no_helmet",
                     [i \in 1..Len(emitted) |->
                        [violation_type |-> emitted[i].type]])) >= 2

\* C8: across all rules at most max_reports_per_hour candidates are emitted
\* in any 3600-second window (a, a + 3600]; such a window holds no more
\* than the window that ends at its last emission.
C8_HourlyRateLimit ==
    \A j \in 1..Len(emitted) :
      Cardinality({i \in 1..j : emitted[j].time - emitted[i].time < Hour})
        <= MaxReportsPerHour

\* More candidates than one hour allows were emitted in all, the last of
\* them after the window had moved on.
C8_Witness ==
    /\ Len(emitted) > MaxReportsPerHour
    /\ Len(report_times) < Len(emitted)

\* C9: a frame whose GPS reading is present with speed_kmh below the gate
\* returns [] and leaves every temporal counter, the cooldown map and the
\* rate-limit list unchanged.
C9_GatedFrameSkips ==
    [][(nframes' = nframes + 1 /\ lastGps' # NoGps /\ lastGps' < SpeedGate)
         => /\ lastOut' = <<>>
            /\ fpc' = "idle"
            /\ counters' = counters
            /\ cooldowns' = cooldowns
            /\ report_times' = report_times]_vars

\* A gated frame arrived at an engine that holds counters, a cooldown and
\* a report time.
C9_Witness ==
    /\ fpc = "idle"
    /\ lastGps # NoGps /\ lastGps < SpeedGate
    /\ \E k \in DOMAIN counters : counters[k] >= 1
    /\ DOMAIN cooldowns # {}
    /\ report_times # <<>>

\* Length of the run of TRUE at the end of a list of condition_met values.
RECURSIVE TrailingTrue(_)
TrailingTrue(bs) ==
    IF bs = <<>> \/ ~bs[Len(bs)] THEN 0
    ELSE 1 + TrailingTrue(SubSeq(bs, 1, Len(bs) - 1))

\* C10: for min_frames >= 1, update returns true exactly when the current
\* call and the min_frames-1 calls before it for the same key all had
\* condition_met = true; a call with condition_met = false sets the count
\* to 0 and returns false; the counters of the other keys are unaffected.
C10_UpdateCountsConsecutive ==
    [][LET k == lastCall'.key
       IN  /\ lastCall'.ret =
                (TrailingTrue(calls'[k]) >= lastCall'.min_frames)
           /\ ~lastCall'.cond =>
                (GetCount(counters', k[1], k[2]) = 0 /\ ~lastCall'.ret)
           /\ \A o \in Keys \ {k} :
                GetCount(counters', o[1], o[2]) = GetCount(counters, o[1], o[2])
      ]_vars

\* update returned true for a key whose run had been broken by a false
\* call before, while another key held a count of its own.
C10_Witness ==
    /\ lastCall.ret
    /\ \E i \in 1..Len(calls[lastCall.key]) : ~calls[lastCall.key][i]
    /\ lastCall.min_frames >= 2
    /\ \E o \in Keys \ {lastCall.key} : GetCount(counters, o[1], o[2]) >= 1

(***************************************************************************)
(* Claims about the email queue                                            *)
(***************************************************************************)
\* C1: when several processors work the email queue at once, every job is
\* leased by at most one of them: no two invocations of process_queue are
\* between marking the same row "processing" and recording its outcome.
C1_LeaseIsExclusive ==
    \A p, q \in Procs :
        (p # q /\ Holding(p) /\ Holding(q))
            => Head(esnap[p]).id # Head(esnap[q]).id

EmailStatusOf(j) ==
    IF j <= Len(email_queue) THEN email_queue[j].status ELSE "none"

\* C2: a job left "processing" by a processor that died is recovered:
\* whenever a row is "processing" it later has another status.
C2_ProcessingIsRecovered ==
    \A j \in 1..MaxEmailRows :
        [](EmailStatusOf(j) = "processing" => <>(EmailStatusOf(j) # "processing"))

\* C3: a job is marked failed for exceeding its retries only after it has
\* had max_attempts (5) send attempts, never after fewer.
C3_FailedAfterMaxAttempts ==
    \A j \in 1..Len(email_queue) :
        (/\ email_queue[j].status = "failed"
         /\ email_queue[j].error_message = "Max retry attempts exceeded")
            => attemptsMade[j] >= MaxAttempts

(***************************************************************************)
(* Claims about the cloud verification queue                               *)
(***************************************************************************)
\* C4: a timeout of the cloud API is a retryable failure: a cloud job all
\* of whose API calls timed out is not moved to failed, and a violation is
\* discarded only if some API call made for it did something other than
\* time out.
C4_TimeoutIsRetryable ==
    /\ \A j \in 1..Len(cloud_queue) :
          apiSeen[j] = {"timeout"} => cloud_queue[j].status # "failed"
    /\ \A v \in VIds :
          vstatus[v] = "discarded" =>
              \E j \in 1..Len(cloud_queue) :
                  /\ cloud_queue[j].violation_id = v
                  /\ apiSeen[j] \ {"timeout"} # {}

(***************************************************************************)
(* Claims about the tracker                                                *)
(***************************************************************************)
\* Detection di of the last update call and track ti as it was when the
\* call began overlap with an IoU of at least iou_threshold.
Near(di, ti) ==
    LET a == tdets[di]
        b == prevTracks[ti].bbox
    IN  /\ UnionArea(a, b) > 0
        /\ IouThresholdDen * InterArea(a, b) >= IouThresholdNum * UnionArea(a, b)

\* C11: in update, a detection that is within the IoU threshold of a live
\* track, where no other detection is within the threshold of that track
\* and the detection is within the threshold of no other track, gets that
\* track's id; a detection below the threshold with every live track gets
\* an id that no live track had and no other detection of the call gets.
C11_IdByIou ==
    \A di \in 1..Len(tdets) :
        /\ \A ti \in 1..Len(prevTracks) :
              (/\ Near(di, ti)
               /\ \A dj \in 1..Len(tdets) : dj # di => ~Near(dj, ti)
               /\ \A tj \in 1..Len(prevTracks) : tj # ti => ~Near(di, tj))
                  => tids[di] = prevTracks[ti].track_id
        /\ (\A ti \in 1..Len(prevTracks) : ~Near(di, ti))
              => /\ \A ti \in 1..Len(prevTracks) :
                       tids[di] # prevTracks[ti].track_id
                 /\ \A dj \in 1..Len(tdets) : dj # di => tids[dj] # tids[di]

\* One call keeps the id of an uncontested pairing at exactly the threshold
\* and gives a fresh id to a detection far from every track.
C11_Witness ==
    /\ \E di \in 1..Len(tdets), ti \in 1..Len(prevTracks) :
          /\ Near(di, ti)
          /\ IouThresholdDen * InterArea(tdets[di], prevTracks[ti].bbox)
                = IouThresholdNum * UnionArea(tdets[di], prevTracks[ti].bbox)
          /\ \A dj \in 1..Len(tdets) : dj # di => ~Near(dj, ti)
          /\ \A tj \in 1..Len(prevTracks) : tj # ti => ~Near(di, tj)
          /\ tids[di] = prevTracks[ti].track_id
    /\ \E di \in 1..Len(tdets) :
          /\ \A ti \in 1..Len(prevTracks) : ~Near(di, ti)
          /\ tids[di] = next_id - 1

InAllTracks(id) == \E i \in 1..Len(trks) : trks[i].track_id = id

\* C12: a track is in all_tracks exactly while the number of consecutive
\* update calls that did not match it, counted from the call that created
\* or last matched it, is at most max_missing_frames.
C12_DroppedAfterMaxMissing ==
    \A id \in 1..Len(missRun) :
        InAllTracks(id) <=> missRun[id] <= MaxMissingFrames

\* C13: with no reset, every new track gets an id greater than every id
\* given before, the first being 1, so no id is given twice.
C13_IdsNeverReused ==
    /\ Len(assigned) > 0 => assigned[1] = 1
    /\ \A i, j \in 1..Len(assigned) : i < j => assigned[i] < assigned[j]

\* Every track was dropped, and the next call, which found no track, went
\* on numbering after the ids given before.
C13_Witness ==
    /\ prevTracks = <<>>
    /\ Len(tids) > 0
    /\ Len(assigned) > Len(tids)
    /\ tids[1] = assigned[Len(assigned) - Len(tids) + 1]

(***************************************************************************)
(* Claims about the sender's rate limit and the connectivity probe         *)
(***************************************************************************)
\* The step is the rate-limit exit of process_queue: the loop is at a job
\* below max attempts and _check_rate_limit returns False.
RateLimitStop ==
    /\ epc[1] = "loop"
    /\ esnap[1] # <<>>
    /\ Head(esnap[1]).attempts < MaxAttempts
    /\ Len(SelectSeq(send_times, LAMBDA x : now - x < Hour)) >= MaxReportsPerHour
    /\ epc'[1] # "loop"

\* C14: within one EmailSender at most max_reports_per_hour emails are
\* sent in any window of 3600 seconds (t, t + 3600]; only successful sends
\* are in the list the limit counts; and when the limit is reached
\* process_queue stops and leaves every row of the queue as it was.
C14_SenderRateLimit ==
    [][ /\ \A i \in 1..Len(sentLog') :
              i + MaxReportsPerHour <= Len(sentLog')
                  => sentLog'[i + MaxReportsPerHour] - sentLog'[i] >= Hour
        /\ \A k \in 1..Len(send_times') :
              \E i \in 1..Len(sentLog') : sentLog'[i] = send_times'[k]
        /\ Len(send_times') <= Len(sentLog')
        /\ RateLimitStop => (email_queue' = email_queue /\ epc'[1] = "idle")
      ]_vars

\* The limit was reached with a pending job left in the list and the
\* sender stopped; more emails than the limit were sent over time, one of
\* them after a failed attempt.
C14_Witness ==
    /\ rateStopped
    /\ Len(sentLog) > MaxReportsPerHour
    /\ \E j \in 1..Len(email_queue) :
          /\ delivered[j] = 1
          /\ attemptsMade[j] > 1

\* C15: when the connectivity probe says offline, process_batch returns 0
\* and changes no row of cloud_queue or email_queue and no violation: the
\* step that takes the probe to offline changes none of them, and after an
\* offline probe no batch is in progress and the call has returned 0.
C15_OfflineChangesNothing ==
    [][ /\ cprobe' = "offline" => (cpc' = "idle" /\ cret' = 0)
        /\ (cprobe # "offline" /\ cprobe' = "offline")
              => /\ cloud_queue' = cloud_queue
                 /\ email_queue' = email_queue
                 /\ vstatus' = vstatus
      ]_vars

\* process_batch has just returned 0 on an offline probe while a job that
\* it could have verified was pending; the job still has all its budget.
C15_Witness ==
    /\ cprobe = "offline"
    /\ cret = 0
    /\ cpc = "idle"
    /\ \E j \in 1..Len(cloud_queue) :
          /\ cloud_queue[j].status = "pending"
          /\ cloud_queue[j].attempts = 0
          /\ cloud_queue[j].violation_id \in evidence

(***************************************************************************)
(* Claims about the lifecycle of a violation                               *)
(***************************************************************************)
\* Position of a status along the lifecycle
\* pending -> {verified | discarded} -> sent -> {cleaned | failed}
Rank(status) ==
    CASE status = "absent" -> 0
      [] status = "pending" -> 1
      [] status \in {"verified", "discarded"} -> 2
      [] status = "sent" -> 3
      [] status \in {"cleaned", "failed"} -> 4

\* C16: the status of a violation record only moves forward: a cleaned or
\* failed record is never changed again, and no record is set back to a
\* status that comes earlier in the lifecycle.
C16_StatusOnlyForward ==
    [][ \A v \in VIds :
          /\ vstatus[v] \in {"cleaned", "failed"} => vstatus'[v] = vstatus[v]
          /\ Rank(vstatus'[v]) >= Rank(vstatus[v])
      ]_vars

\* Some email job of violation v has been sent
EmailDelivered(v) ==
    \E j \in 1..Len(email_queue) :
        /\ email_queue[j].violation_id = v
        /\ email_queue[j].status = "sent"

\* C17: a verified violation whose email job was sent successfully has its
\* record moved to sent (from where the storage manager can clean it); it
\* does not stay in verified forever.
C17_DeliveredBecomesSent ==
    \A v \in VIds :
        (EmailDelivered(v) /\ vstatus[v] = "verified")
            ~> (vstatus[v] \in {"sent", "cleaned"})

\* Rows of the queue q that belong to violation v
RowsOf(q, v) == {j \in 1..Len(q) : q[j].violation_id = v}

\* C18: after any sequence of enqueue calls and processor runs every
\* violation has at most one cloud_queue row and at most one email_queue
\* row.
C18_OneRowPerViolation ==
    \A v \in VIds :
        /\ Cardinality(RowsOf(cloud_queue, v)) <= 1
        /\ Cardinality(RowsOf(email_queue, v)) <= 1

\* In this step no row of the queue disappears, no attempts value goes
\* down, and a row whose status changes has its attempts changed with it.
RowsStepTogether(q, qNext) ==
    /\ Len(qNext) >= Len(q)
    /\ \A j \in 1..Len(q) :
          /\ qNext[j].attempts >= q[j].attempts
          /\ qNext[j].status # q[j].status => qNext[j].attempts # q[j].attempts

C20_SoftwareFallback ==
    /\ pkOut.tried # <<>> => pkOut.tried[1] = "hw"
    /\ (pkIn.clip /\ pkIn.hw # "ok") => pkOut.tried = <<"hw", "sw">>
    /\ ~pkOut.raised
    /\ (pkIn.clip /\ pkIn.hw # "ok" /\ pkIn.sw = "ok" /\ pkIn.move /\ pkIn.db)
          => pkOut.video_clip_path # "None"

(***************************************************************************)
(* Claims about packaging and storage cleanup                              *)
(***************************************************************************)
\* C21: package returns a packet whatever frames and clip fail: every
\* selected frame is processed, the packet holds the JPEG bytes and the
\* hashes of exactly the frames that succeeded, and video_clip_path is None
\* when the clip failed.
C21_PacketHoldsWhatSucceeded ==
    (kpc = "idle" /\ kvid # "none") =>
        /\ kidx = kn
        /\ {packet.frames[i] : i \in 1..Len(packet.frames)} = kok
        /\ {h \in packet.hashes : h[1] = "frame"} = {FrameName(i) : i \in kok}
        /\ ~kclipOk => packet.video_clip_path = "None"

\* C22: package inserts the violation record before it writes any evidence
\* file or inserts any evidence_files row of that violation, and at every
\* moment every evidence_files row references an existing violations row.
C22_ViolationBeforeEvidence ==
    [][ /\ \A v \in VIds :
              (v \in efiles' \ efiles \/ v \in evidence' \ evidence)
                 => vstatus[v] # "absent"
        /\ \A v \in evidence' : vstatus'[v] # "absent"
      ]_vars

\* package has returned with evidence files on disk and their rows recorded
C22_Witness ==
    /\ kpc = "idle"
    /\ kvid \in evidence
    /\ kvid \in efiles
    /\ kok # {}

\* C25: when check_and_cleanup completes, disk and evidence_files agree: no
\* evidence_files row is left for a violation whose evidence directory or
\* files were deleted, and no evidence directory is left without a
\* violation record.
C25_DiskAndRowsAgree ==
    [][ (spc # "idle" /\ spc' = "idle") =>
            /\ \A v \in evidence' : v \in edirs' /\ v \in efiles'
            /\ \A v \in edirs' : vstatus'[v] # "absent" \/ (kpc' # "idle" /\ kvid' = v)
      ]_vars

\* C26: storage cleanup never deletes the database row or the evidence
\* directory of a violation that is pending or processing, also when it
\* runs beside the package call that is creating the violation.
C26_PendingIsNeverCleaned ==
    [][ \A v \in VIds :
            vstatus[v] \in {"pending", "processing"} =>
                /\ vstatus'[v] # "absent"
                /\ v \in edirs => v \in edirs'
      ]_vars

(***************************************************************************)
(* Claims about the confidence aggregator                                  *)
(***************************************************************************)
\* C23: with the default thresholds a confidence is in exactly one band:
\* local iff >= 0.96, cloud iff 0.70 <= confidence < 0.96, discard iff
\* < 0.70.
C23_ExactlyOneBand ==
    /\ rband.local <=> rconf >= 96
    /\ rband.cloud <=> (70 <= rconf /\ rconf < 96)
    /\ rband.discard <=> rconf < 70
    /\ Cardinality({b \in {"local", "cloud", "discard"} : rband[b]}) = 1

\* The predicates were asked about exactly 0.96
C23_Witness ==
    /\ rconf = 96
    /\ rband.local
    /\ ~rband.cloud

\* C24: with component scores in [0,1] and temporal_ratio >= 0, compute is
\* 0.3 d + 0.3 c + 0.2 min(1,t) + 0.2 ocr with an OCR score and
\* (0.3 d + 0.3 c + 0.2 min(1,t)) / 0.8 without; it is in [0,1], 0 for all
\* zeros, 1 for all ones, and a temporal_ratio above 1 scores as 1.
C24_WeightedSum ==
    LET s == ScoreSteps
        tmin == IF cin.t < s THEN cin.t ELSE s
        three == 3 * cin.d + 3 * cin.c + 2 * tmin
    IN  /\ cin.ocr # NoOcr =>
              cres.num * (10 * s) = (three + 2 * cin.ocr) * cres.den
        /\ cin.ocr = NoOcr => cres.num * (8 * s) = three * cres.den
        /\ 0 <= cres.num /\ cres.num <= cres.den /\ cres.den > 0
        /\ (cin.d = 0 /\ cin.c = 0 /\ cin.t = 0 /\ cin.ocr = NoOcr) => cres.num = 0
        /\ (cin.d = s /\ cin.c = s /\ cin.t >= s /\ cin.ocr \in {NoOcr, s})
              => cres.num = cres.den
        /\ cin.t > s => cres = Compute(cin.d, cin.c, s, cin.ocr)

\* compute without an OCR score, a temporal_ratio above 1 and a result
\* strictly between 0 and 1
C24_Witness ==
    /\ cin.ocr = NoOcr
    /\ cin.t > ScoreSteps
    /\ 0 < cres.num
    /\ cres.num < cres.den

C28_BackoffPerSendAttempt ==
    /\ lastSleep.sends >= 1 =>
          lastSleep.seconds = (IF Pow2(lastSleep.sends) < 300
                               THEN Pow2(lastSleep.sends) ELSE 300)
    /\ (lastSleep.id # 0 /\ attemptsMade[lastSleep.id] = 0) => lastSleep.seconds = 0

\* C29: a processor stopped while it handles a job (in its backoff sleep,
\* the reconstruction or the send) leaves the job pending or failed: no job
\* is in status processing unless an invocation is handling it, and no job
\* is lost.
C29_StopLeavesNoProcessing ==
    /\ \A j \in 1..Len(email_queue) :
          email_queue[j].status = "processing"
             => \E p \in Procs : Holding(p) /\ Head(esnap[p]).id = j
    /\ \A j \in 1..Len(email_queue) :
          email_queue[j].status \in {"pending", "processing", "sent", "failed"}

(***************************************************************************)
(* Claims about the matching of the tracker                                *)
(***************************************************************************)
\* The ids of the tracks the last update call began with
PrevIds == {prevTracks[ti].track_id : ti \in 1..Len(prevTracks)}

\* IoU(tdets[dj], track ti) >= IoU(tdets[di], track ti)
NotLessIou(dj, di, ti) ==
    InterArea(tdets[dj], prevTracks[ti].bbox) * UnionArea(tdets[di], prevTracks[ti].bbox)
       >= InterArea(tdets[di], prevTracks[ti].bbox) * UnionArea(tdets[dj], prevTracks[ti].bbox)

\* C30: the assignment of an update call is one-to-one and greedy by
\* descending IoU: no two detections get the same track id, and a detection
\* gets a fresh id only if every live track within the threshold of it was
\* matched to another detection whose IoU with that track is at least as
\* high.
C30_GreedyOneToOne ==
    /\ \A di, dj \in 1..Len(tids) : di # dj => tids[di] # tids[dj]
    /\ \A di \in 1..Len(tids) :
          tids[di] \notin PrevIds =>
             \A ti \in 1..Len(prevTracks) :
                Near(di, ti) =>
                   \E dj \in 1..Len(tids) :
                      /\ dj # di
                      /\ tids[dj] = prevTracks[ti].track_id
                      /\ NotLessIou(dj, di, ti)

\* Two detections were within the threshold of one track: the closer one
\* took it and the other got a fresh id
C30_Witness ==
    \E di, dj \in 1..Len(tids), ti \in 1..Len(prevTracks) :
        /\ di # dj
        /\ Near(di, ti)
        /\ Near(dj, ti)
        /\ tids[dj] = prevTracks[ti].track_id
        /\ tids[di] \notin PrevIds
        /\ ~NotLessIou(di, dj, ti)

(***************************************************************************)
(* Claims about the selection of the best frames                           *)
(***************************************************************************)
\* The sum of the detection confidences recorded for frame id in frames
RECURSIVE RecordedConf(_, _)
RecordedConf(frames, id) ==
    IF frames = <<>> THEN 0
    ELSE (IF Head(frames).frame_id = id THEN TotalConf(Head(frames).detections)
          ELSE 0) + RecordedConf(Tail(frames), id)

PosInClip(id) == CHOOSE i \in DOMAIN sbIn.clip_frames : sbIn.clip_frames[i] = id

SelectedIds == {sbOut[i] : i \in DOMAIN sbOut}

UnselectedIds == {sbIn.clip_frames[i] : i \in DOMAIN sbIn.clip_frames} \ SelectedIds

\* C31: _select_best_frames returns min(N, number of clip frames) frames of
\* the clip; no frame left out has a strictly higher score than a returned
\* one, the score of a frame being the sum of the detection confidences the
\* candidate's frames record for its frame_id (0 if there is none); and of
\* two frames of equal score the one earlier in the buffer order is taken
\* first.
C31_TopNByScore ==
    sbRan =>
        /\ Len(sbOut) = Min2(sbIn.count, Len(sbIn.clip_frames))
        /\ Cardinality(SelectedIds) = Len(sbOut)
        /\ \A s \in SelectedIds : \E i \in DOMAIN sbIn.clip_frames :
               sbIn.clip_frames[i] = s
        /\ \A s \in SelectedIds, u \in UnselectedIds :
               /\ RecordedConf(sbIn.frames, u) <= RecordedConf(sbIn.frames, s)
               /\ RecordedConf(sbIn.frames, u) = RecordedConf(sbIn.frames, s)
                      => PosInClip(s) < PosInClip(u)

\* Two frames were returned of a longer clip, and a frame left out has the
\* same positive score as a returned one
C31_Witness ==
    /\ sbRan
    /\ Len(sbOut) = 2
    /\ \E s \in SelectedIds, u \in UnselectedIds :
           /\ RecordedConf(sbIn.frames, u) = RecordedConf(sbIn.frames, s)
           /\ RecordedConf(sbIn.frames, s) > 0
    /\ \E s \in SelectedIds, u \in UnselectedIds :
           RecordedConf(sbIn.frames, u) < RecordedConf(sbIn.frames, s)

(***************************************************************************)
(* Claims about the counters the engine holds                              *)
(***************************************************************************)
\* cleanup_stale: the counters it leaves
CleanupStale(c, active_track_ids) ==
    [k \in {x \in DOMAIN c : x[2] \in active_track_ids} |-> c[k]]

\* C32: the counters of track ids that are no longer active are removed as
\* tracks churn: when process_frame returns, every counter key the engine
\* holds is of a track of the frame's detections (the frames looked at are
\* those whose threshold-clearing hits are all for tracks of the frame).
C32_CountersOnlyForActiveTracks ==
    [][(/\ fpc = "rules" /\ fpc' = "idle"
        /\ \A k \in Keys : k[2] \notin dets => streak'[k] = 0) =>
          \A k \in DOMAIN counters' : k[2] \in dets]_vars

\* process_frame never takes a key out of the counters
C32_KeysNeverRemoved == [][DOMAIN counters \subseteq DOMAIN counters']_vars

(***************************************************************************)
(* Claims about the tracks of the returned detections                      *)
(***************************************************************************)
\* active_tracks: the tracks with missing_frames == 0
ActiveTracks(ts) == SelectSeq(ts, LAMBDA t : t.missing_frames = 0)

\* C33: after any update call every detection it returned carries the
\* track_id of a track of all_tracks with missing_frames = 0, that is of a
\* track of active_tracks, the detections that started a track in that call
\* included.
C33_ReturnedIdsAreActive ==
    nupdates >= 1 =>
      \A di \in DOMAIN tids :
        \E i \in DOMAIN ActiveTracks(trks) :
          ActiveTracks(trks)[i].track_id = tids[di]

(***************************************************************************)
(* Claims about the hits of one frame                                      *)
(***************************************************************************)
\* C34: in one process_frame call the consecutive-frame counter of any
\* (rule, track) pair increases by at most 1, whatever list of hits
\* rule.evaluate returns (the counters of a rule change only in the
\* iteration of the loop over the rules that evaluates it), and no
\* candidate is returned by a call earlier than the min_consecutive_frames-th.
C34_CounterStepsByOne ==
    [][/\ \A k \in Keys :
            GetCount(counters', k[1], k[2]) <= GetCount(counters, k[1], k[2]) + 1
       /\ \A i \in 1..Len(lastOut') :
            nframes' >= MinFrames(lastOut'[i].violation_type)]_vars

(***************************************************************************)
(* Claims about the durable state process_batch leaves                     *)
(***************************************************************************)
CloudJobsOf(v) == {i \in 1..Len(cloud_queue) : cloud_queue[i].violation_id = v}

EmailJobsOf(v) == {i \in 1..Len(email_queue) : email_queue[i].violation_id = v}

\* C35: wherever process_batch dies, the database it leaves is consistent:
\* a violation (with one cloud job) has status verified if and only if its
\* cloud job is done and an email job for it exists.
C35_VerifiedIffDoneAndQueued ==
    \A v \in VIds :
      (cpc = "idle" /\ Cardinality(CloudJobsOf(v)) = 1) =>
        (vstatus[v] = "verified"
           <=> /\ \A i \in CloudJobsOf(v) : cloud_queue[i].status = "done"
               /\ EmailJobsOf(v) # {})

(***************************************************************************)
(* Claims about the jobs a process_batch handles                           *)
(***************************************************************************)
\* The cloud jobs verify was called for and process_batch is done with
VerifiedJobs ==
    {i \in 1..Len(cloud_queue) :
        /\ apiSeen[i] # {}
        /\ cpc \in {"idle", "loop"}}

C37_FirstEmissionNotBlocked ==
    fpc = "rules" =>
      \A vtype \in Rules :
        vtype \notin DOMAIN cooldowns => CheckCooldown(cooldowns, vtype, now)

(***************************************************************************)
(* Claims about the retries of verify                                      *)
(***************************************************************************)
\* The API calls of the log that did not raise
ReturnedCalls == {i \in 1..Len(vlog) : vlog[i] \notin CallRaises}

\* C39: verify terminates after at most cloud.max_retries API calls: it
\* returns the parsed result of the first call that does not raise, which
\* is then the last call made; it sleeps 2^attempt seconds between
\* attempts only, never after the last one; and it returns an unconfirmed
\* result with confidence 0 when every attempt raised.
C39_ReturnsFirstAnswer ==
    /\ Len(vlog) <= MaxRetries
    /\ vdone =>
         /\ \A i \in ReturnedCalls :
              /\ i = Len(vlog)
              /\ vret.raw = i
         /\ vsleeps = [k \in 1..(Len(vlog) - 1) |-> Pow2(k)]
         /\ ReturnedCalls = {} => vret = Unconfirmed

(***************************************************************************)
(* Claims about the files of a packet                                      *)
(***************************************************************************)
\* The files of the call that have an evidence_files row (the row is
\* written with the hash the packet holds for the file)
RowNames ==
    {FrameName(i) : i \in kok} \cup (IF kclipOk THEN {ClipName} ELSE {})

\* C38: after package returns, the packet, the evidence directory and the
\* database describe the same files: every file named in file_hashes is in
\* the directory and has an evidence_files row, and every evidence_files
\* row of the violation is named in file_hashes, also when a step for a
\* frame or for the clip fails part-way.
C38_PacketDiskAndRowsAgree ==
    (kpc = "idle" /\ kvid # "none") =>
        /\ packet.hashes \subseteq kfiles
        /\ packet.hashes \subseteq RowNames
        /\ RowNames \subseteq packet.hashes

====
